---- MODULE Spec2Model ----
(***************************************************************************)
(* A model of bigmemory's storage engine (src/src/BigMatrix.cpp and the    *)
(* binding layer src/src/bigmemory.cpp): the shared-memory and file-backed *)
(* stores with their named resources and reference count, and the          *)
(* per-column locking protocol.                                            *)
(*                                                                         *)
(* Three specifications share the variables:                               *)
(*   Spec      the create / connect / destroy lifecycle of the two shared  *)
(*             stores, one action per call, with injected failures;        *)
(*   SpecData  the same lifecycle with element writes;                     *)
(*   SpecLock  the batched read_lock / read_write_lock / unlock calls of   *)
(*             the processes attached to one matrix, one action per        *)
(*             statement.                                                  *)
(***************************************************************************)
EXTENDS Integers, Sequences, FiniteSets, TLC

(***************************************************************************)
(* Bounds of the model.                                                    *)
(***************************************************************************)
\* BigMatrix objects (holders), one per process
NHandles == 3
\* largest column count of a matrix
MaxCols == 2
\* identities create_uuid() hands out
MaxCreates == 2
\* longest column list of one batched lock call
MaxBatch == 2

Handles == 1 .. NHandles
\* sizeof(char), sizeof(short), sizeof(int), sizeof(double)
Types == {1, 2, 4, 8}
\* row count of the matrices of the model
Rows == {1}
\* values written through the accessor (a fresh segment reads 0)
Vals == {7}
\* file names and directories a caller passes for a file-backed matrix
FileNames == {<<"f">>}
FilePaths == {<< >>, <<"d/">>}

NoName == << >>

(***************************************************************************)
(* Names.  A name is a sequence of tokens; + on std::string is \o.         *)
(***************************************************************************)
Digit == <<"0", "1", "2", "3", "4", "5", "6", "7", "8", "9">>

RECURSIVE ttos(_)
ttos(i) ==
    IF i < 10 THEN <<Digit[i + 1]>>
    ELSE ttos(i \div 10) \o <<Digit[(i % 10) + 1]>>

\* the k-th value uuid::create().to_string() returns: one token, so that no
\* identity is a prefix of another
Uuids == <<"uuid-a", "uuid-b", "uuid-c", "uuid-d", "uuid-e">>
Uuid(k) == <<Uuids[k]>>

ColumnName(sharedName, i) == sharedName \o <<"_column_">> \o ttos(i)
ColumnMutexName(sharedName, i) == sharedName \o <<"_column_">> \o ttos(i) \o <<"mutex">>
CounterName(sharedName) == sharedName \o <<"_counter">>
CounterMutexName(sharedName) == sharedName \o <<"_counter_mutex">>
MutexLockName(sharedName) == sharedName \o <<"_mutex_lock">>
CreateUuidMutexName == <<"SharedBigMatrix_create_uuid">>

IsPrefix(a, b) == Len(a) <= Len(b) /\ SubSeq(b, 1, Len(a)) = a

(***************************************************************************)
(* State.                                                                  *)
(***************************************************************************)
VARIABLES
    shm,        \* shared-memory namespace: name -> [kind, val, obj]
    fs,         \* file system: path name -> memory object (inode)
    mem,        \* memory objects (segments, inodes): sequence of [size, cells]
    nmx,        \* named_mutex namespace: name -> locked
    locks,      \* names of the BigMemoryMutex objects that exist
    h,          \* the BigMatrix objects, one per holder
    nextUuid,   \* identities handed out so far
    known,      \* what callers remember of each created matrix
    lastW,      \* sharedName -> <<row, col>> -> last value written
    lk,         \* holds on BigMemoryMutex objects: <<name, holder, mode>>
    call,       \* the batched lock call each holder is in
    heap,       \* blocks of the process heap: sequence of [n, w, live, frees, ptrs]
    cell,       \* one element of a matrix and the assignment that last wrote it
    tm,         \* the transient named mutexes, one statement of an operation per step
    out         \* the last call of a function of the bindings: its arguments and result

vars == <<shm, fs, mem, nmx, locks, h, nextUuid, known, lastW, lk, call, heap, cell, tm, out>>
lifeVars == <<shm, fs, mem, nmx, locks, h, nextUuid, known, lastW, heap, cell, tm, out>>

\* f without x in its domain
Without(f, x) == [n \in DOMAIN f \ {x} |-> f[n]]
\* f with x mapped to v
With(f, x, v) == [n \in DOMAIN f \cup {x} |-> IF n = x THEN v ELSE f[n]]

Zeros(n) == [k \in 0 .. n - 1 |-> 0]

\* a BigMatrix object as its constructor leaves it
FreshHandle ==
    [cls |-> "none", uuid |-> NoName, sharedName |-> NoName, fileName |-> NoName,
     nrow |-> 0, ncol |-> 0, matType |-> 0, sepCols |-> FALSE, preserve |-> TRUE,
     matrix |-> "NULL", regions |-> << >>, counter |-> NoName,
     mutexPtrs |-> << >>, mutexLock |-> NoName,
     how |-> "none", op |-> "none", res |-> "none",
     block |-> 0, destroys |-> 0]

(***************************************************************************)
(* SharedCounter: the named reference counter, a long in a shared-memory   *)
(* object of its own.  init(name) creates it with 1 or, when the name      *)
(* exists, attaches and increments; reset() decrements and removes the     *)
(* name on reaching 0.                                                     *)
(***************************************************************************)
SharedCounter_init(s, name) ==
    IF name \in DOMAIN s
    THEN [s EXCEPT ![name].val = @ + 1]
    ELSE With(s, name, [kind |-> "counter", val |-> 1, obj |-> 0])

SharedCounter_get(s, name) == IF name \in DOMAIN s THEN s[name].val ELSE 0

SharedCounter_reset(s, name) ==
    IF name = NoName \/ name \notin DOMAIN s THEN s
    ELSE IF s[name].val - 1 = 0 THEN Without(s, name)
    ELSE [s EXCEPT ![name].val = @ - 1]

(***************************************************************************)
(* BigMemoryMutex: a named reader/writer lock.  init(name) opens or        *)
(* creates it, destroy() removes the name.                                 *)
(***************************************************************************)
BigMemoryMutex_init(L, name) == L \cup {name}
BigMemoryMutex_destroy(L, name) == L \ {name}

\* shared_memory_object::remove(name)
shm_remove(s, name) == IF name \in DOMAIN s THEN Without(s, name) ELSE s

RECURSIVE shm_remove_columns(_, _, _)
\* the loop "for (j=0; j < n; ++j) remove(sharedName_column_j)"
shm_remove_columns(s, sharedName, n) ==
    IF n = 0 THEN s
    ELSE shm_remove(shm_remove_columns(s, sharedName, n - 1),
                    ColumnName(sharedName, n - 1))

(***************************************************************************)
(* An injected failure of one statement of a creation loop: column `at`,   *)
(* at the statement `stage`.                                               *)
(***************************************************************************)
NoFail == [at |-> -1, stage |-> "none"]
ShmFailStages == {"open", "truncate", "map"}
ShmFails(ncol) ==
    {NoFail} \cup [at : 0 .. ncol - 1, stage : ShmFailStages]

FailsAt(fail, i, stage) == fail.at = i /\ fail.stage = stage

RECURSIVE CreateSharedSepMatrix(_, _, _, _, _, _, _, _, _)
(***************************************************************************)
(* CreateSharedSepMatrix<T>, from iteration i on: w is sizeof(T), regs the *)
(* regions mapped so far.  Any of shared_memory_object(create_only),       *)
(* truncate and the mapping may throw interprocess_exception; the catch    *)
(* block removes the columns j < i.                                        *)
(***************************************************************************)
CreateSharedSepMatrix(s, m, sharedName, nrow, ncol, w, i, regs, fail) ==
    IF i = ncol
    THEN [matrix |-> "ptr", shm |-> s, mem |-> m, regions |-> regs]
    ELSE
      LET nm == ColumnName(sharedName, i)
          caught(s1, m1) ==
              [matrix |-> "NULL", shm |-> shm_remove_columns(s1, sharedName, i),
               mem |-> m1, regions |-> regs]
          obj == Len(m) + 1
          s1 == With(s, nm, [kind |-> "data", val |-> 0, obj |-> obj])
          m1 == Append(m, [size |-> 0, cells |-> Zeros(0)])
          m2 == Append(m, [size |-> nrow * w, cells |-> Zeros(nrow)])
      IN  IF nm \in DOMAIN s \/ FailsAt(fail, i, "open") THEN caught(s, m)
          ELSE IF FailsAt(fail, i, "truncate") THEN caught(s1, m1)
          ELSE IF FailsAt(fail, i, "map") THEN caught(s1, m2)
          ELSE CreateSharedSepMatrix(s1, m2, sharedName, nrow, ncol, w, i + 1,
                                     Append(regs, obj), fail)

\* CreateSharedMatrix<T> sizing the segment for a single column
CreateSharedMatrix_OneColumn(s, m, sharedName, nrow, ncol, w, fail) ==
    LET obj == Len(m) + 1
    IN  [matrix |-> "addr",
         shm |-> With(s, sharedName, [kind |-> "data", val |-> 0, obj |-> obj]),
         mem |-> Append(m, [size |-> nrow * w, cells |-> Zeros(nrow * ncol)]),
         regions |-> <<obj>>]

(***************************************************************************)
(* CreateSharedMatrix<T>: one segment named sharedName; the catch block    *)
(* removes the name sharedName.                                            *)
(***************************************************************************)
CreateSharedMatrix(s, m, sharedName, nrow, ncol, w, fail) ==
    LET caught(s1, m1) ==
            [matrix |-> "NULL", shm |-> shm_remove(s1, sharedName),
             mem |-> m1, regions |-> << >>]
        obj == Len(m) + 1
        s1 == With(s, sharedName, [kind |-> "data", val |-> 0, obj |-> obj])
        m1 == Append(m, [size |-> 0, cells |-> Zeros(0)])
        m2 == Append(m, [size |-> nrow * ncol * w, cells |-> Zeros(nrow * ncol)])
    IN  IF sharedName \in DOMAIN s \/ FailsAt(fail, 0, "open") THEN caught(s, m)
        ELSE IF FailsAt(fail, 0, "truncate") THEN caught(s1, m1)
        ELSE IF FailsAt(fail, 0, "map") THEN caught(s1, m2)
        ELSE [matrix |-> "addr", shm |-> s1, mem |-> m2, regions |-> <<obj>>]

\* CreateMutexes: one BigMemoryMutex per column
CreateMutexes(L, sharedName, ncol) ==
    L \cup {ColumnMutexName(sharedName, i) : i \in 0 .. ncol - 1}

\* CreateMutexes with a loop that stops one column early
MutexPtrs_OneShort(sharedName, ncol) ==
    [i \in 1 .. ncol - 1 |-> ColumnMutexName(sharedName, i - 1)]

MutexPtrs(sharedName, ncol) ==
    [i \in 1 .. ncol |-> ColumnMutexName(sharedName, i - 1)]

\* mutex.lock() on the named_mutex `name` returns only while it is not locked
CanLock(name) == IF name \in DOMAIN nmx THEN ~nmx[name] ELSE TRUE

(***************************************************************************)
(* SharedMemoryBigMatrix::create on a new object of holder p.              *)
(***************************************************************************)
SharedMemoryBigMatrix_create(p, numRow, numCol, matrixType, sepCols, fail) ==
    LET uuid == Uuid(nextUuid + 1)
        sharedName == uuid
        s0 == SharedCounter_init(shm, CounterName(sharedName))
        r == IF sepCols
             THEN CreateSharedSepMatrix(s0, mem, sharedName, numRow, numCol,
                                        matrixType, 0, << >>, fail)
             ELSE CreateSharedMatrix(s0, mem, sharedName, numRow, numCol,
                                     matrixType, fail)
        obj == [FreshHandle EXCEPT
                   !.cls = "shm", !.uuid = uuid, !.sharedName = sharedName,
                   !.nrow = numRow, !.ncol = numCol, !.matType = matrixType,
                   !.sepCols = sepCols, !.matrix = r.matrix,
                   !.regions = r.regions, !.how = "create", !.op = "create"]
    IN  /\ h[p].cls = "none"
        /\ nextUuid < MaxCreates
        /\ CanLock(CreateUuidMutexName)
        /\ CanLock(CounterMutexName(sharedName))
        /\ nextUuid' = nextUuid + 1
        /\ mem' = r.mem
        /\ IF r.matrix = "NULL"
           THEN /\ shm' = SharedCounter_reset(r.shm, CounterName(sharedName))
                /\ locks' = locks
                /\ h' = [h EXCEPT ![p] = [obj EXCEPT !.res = "false"]]
                /\ known' = known
           ELSE /\ shm' = r.shm
                /\ locks' = BigMemoryMutex_init(
                                CreateMutexes(locks, sharedName, numCol),
                                MutexLockName(sharedName))
                /\ h' = [h EXCEPT ![p] =
                            [obj EXCEPT !.counter = CounterName(sharedName),
                                        !.mutexPtrs = MutexPtrs(sharedName, numCol),
                                        !.mutexLock = MutexLockName(sharedName),
                                        !.res = "true"]]
                /\ known' = With(known, sharedName,
                                 [cls |-> "shm", fileName |-> NoName,
                                  filePath |-> NoName, nrow |-> numRow,
                                  ncol |-> numCol, matType |-> matrixType,
                                  sepCols |-> sepCols])
        /\ UNCHANGED <<fs, nmx, lastW, lk, call, heap, cell, tm, out>>


Attached(p) == h[p].op \in {"create", "connect"} /\ h[p].res = "true"

(***************************************************************************)
(* ConnectSharedSepMatrix<T> / ConnectSharedMatrix<T>: each segment is     *)
(* opened open_only, which throws when the name does not exist; the        *)
(* regions mapped before the throw stay in _dataRegionPtrs.                *)
(***************************************************************************)
ConnectSharedSepMatrix(s, uuid, ncol) ==
    LET missing == {i \in 0 .. ncol - 1 : ColumnName(uuid, i) \notin DOMAIN s}
        upto == IF missing = {} THEN ncol
                ELSE CHOOSE i \in missing : \A j \in missing : i <= j
    IN  [threw |-> missing # {},
         matrix |-> IF missing = {} THEN "ptr" ELSE "NULL",
         regions |-> [i \in 1 .. upto |-> s[ColumnName(uuid, i - 1)].obj]]

\* ConnectSharedMatrix opening the segment whether or not it exists
ConnectSharedMatrix_NoThrow(s, sharedName) ==
    [threw |-> FALSE, matrix |-> "addr",
     regions |-> IF sharedName \in DOMAIN s THEN <<s[sharedName].obj>> ELSE <<0>>]

ConnectSharedMatrix(s, sharedName) ==
    IF sharedName \in DOMAIN s
    THEN [threw |-> FALSE, matrix |-> "addr", regions |-> <<s[sharedName].obj>>]
    ELSE [threw |-> TRUE, matrix |-> "NULL", regions |-> << >>]

(***************************************************************************)
(* SharedMemoryBigMatrix::connect on a new object of holder p.  An         *)
(* exception of the Connect* helper leaves connect() past init() of the    *)
(* counter and before mutex.unlock().                                      *)
(***************************************************************************)
SharedMemoryBigMatrix_connect(p, uuid, numRow, numCol, matrixType, sepCols) ==
    LET sharedName == uuid
        s0 == SharedCounter_init(shm, CounterName(sharedName))
        r == IF sepCols THEN ConnectSharedSepMatrix(s0, sharedName, numCol)
             ELSE ConnectSharedMatrix(s0, sharedName)
        obj == [FreshHandle EXCEPT
                   !.cls = "shm", !.uuid = uuid, !.sharedName = sharedName,
                   !.nrow = numRow, !.ncol = numCol, !.matType = matrixType,
                   !.sepCols = sepCols, !.matrix = r.matrix,
                   !.regions = r.regions, !.counter = CounterName(sharedName),
                   !.how = "connect", !.op = "connect"]
    IN  /\ h[p].cls = "none"
        /\ CanLock(CounterMutexName(uuid))
        /\ shm' = s0
        /\ IF r.threw
           THEN /\ nmx' = With(nmx, CounterMutexName(uuid), TRUE)
                /\ locks' = locks
                /\ h' = [h EXCEPT ![p] = [obj EXCEPT !.res = "interprocess_exception"]]
           ELSE /\ nmx' = nmx
                /\ locks' = BigMemoryMutex_init(
                                CreateMutexes(locks, sharedName, numCol),
                                MutexLockName(sharedName))
                /\ h' = [h EXCEPT ![p] =
                            [obj EXCEPT !.mutexPtrs = MutexPtrs(sharedName, numCol),
                                        !.mutexLock = MutexLockName(sharedName),
                                        !.res = "true"]]
        /\ UNCHANGED <<fs, mem, nextUuid, known, lastW, lk, call, heap, cell, tm, out>>

\* DestroySharedSepMatrix
DestroySharedSepMatrix(s, uuid, ncol) == shm_remove_columns(s, uuid, ncol)

RECURSIVE DestroyMutexes(_, _, _)
\* the loop over _mutexPtrs calling destroy() on each, from entry i on
DestroyMutexes(L, ptrs, i) ==
    IF i > Len(ptrs) THEN L
    ELSE DestroyMutexes(BigMemoryMutex_destroy(L, ptrs[i]), ptrs, i + 1)

\* SharedMemoryBigMatrix::destroy releasing the shared resources whatever
\* the counter says
SharedMemoryBigMatrix_destroy_Always(p) ==
    LET o == h[p]
    IN  /\ o.cls = "shm"
        /\ Attached(p)
        /\ CanLock(CounterMutexName(o.sharedName))
        /\ shm' = SharedCounter_reset(
                      IF o.sepCols THEN DestroySharedSepMatrix(shm, o.uuid, o.ncol)
                      ELSE shm_remove(shm, o.uuid), o.counter)
        /\ locks' = BigMemoryMutex_destroy(DestroyMutexes(locks, o.mutexPtrs, 1),
                                           o.mutexLock)
        /\ h' = [h EXCEPT ![p] =
                    [o EXCEPT !.regions = << >>,
                              !.matrix = IF o.matrix = "NULL" THEN "NULL"
                                         ELSE "dangling",
                              !.counter = NoName,
                              !.op = "destroy", !.res = "true"]]
        /\ UNCHANGED <<fs, mem, nmx, nextUuid, known, lastW, lk, call, heap, cell, tm, out>>

(***************************************************************************)
(* SharedMemoryBigMatrix::destroy by holder p.                             *)
(***************************************************************************)
SharedMemoryBigMatrix_destroy(p) ==
    LET o == h[p]
        last == SharedCounter_get(shm, o.counter) = 1
        s1 == IF ~last THEN shm
              ELSE IF o.sepCols THEN DestroySharedSepMatrix(shm, o.uuid, o.ncol)
              ELSE shm_remove(shm, o.uuid)
        L1 == IF last
              THEN BigMemoryMutex_destroy(DestroyMutexes(locks, o.mutexPtrs, 1),
                                          o.mutexLock)
              ELSE locks
    IN  /\ o.cls = "shm"
        /\ Attached(p)
        /\ CanLock(CounterMutexName(o.sharedName))
        /\ shm' = SharedCounter_reset(s1, o.counter)
        /\ locks' = L1
        /\ h' = [h EXCEPT ![p] =
                    [o EXCEPT !.regions = << >>,
                              !.matrix = IF o.matrix = "NULL" THEN "NULL"
                                         ELSE "dangling",
                              !.counter = NoName,
                              !.op = "destroy", !.res = "true"]]
        /\ UNCHANGED <<fs, mem, nmx, nextUuid, known, lastW, lk, call, heap, cell, tm, out>>


(***************************************************************************)
(* Files.  std::filebuf::open(in|out|trunc) empties the file of that name  *)
(* or makes a new one; pubseekoff(n) and sputc(0) then write one byte at   *)
(* offset n.  unlink removes the name, the mapped contents stay.           *)
(***************************************************************************)
FileColumnName(filePath, fileName, i) ==
    filePath \o fileName \o <<"_column_">> \o ttos(i)

FileFails(ncol) == {NoFail} \cup [at : 0 .. ncol - 1, stage : {"open"}]

\* the file `name` emptied or made, then extended by the byte at offset n*w
MakeFile(f, m, name, n, w) ==
    LET blank == [size |-> n * w + 1, cells |-> Zeros(n)]
    IN  IF name \in DOMAIN f
        THEN [fs |-> f, mem |-> [m EXCEPT ![f[name]] = blank]]
        ELSE [fs |-> With(f, name, Len(m) + 1), mem |-> Append(m, blank)]

unlink(f, name) == IF name \in DOMAIN f THEN Without(f, name) ELSE f

\* ConnectFileBackedSepMatrix<T>: file_mapping throws on a missing file
ConnectFileBackedSepMatrix(f, fileName, filePath, ncol) ==
    LET missing == {i \in 0 .. ncol - 1 :
                       FileColumnName(filePath, fileName, i) \notin DOMAIN f}
        upto == IF missing = {} THEN ncol
                ELSE CHOOSE i \in missing : \A j \in missing : i <= j
    IN  [threw |-> missing # {},
         matrix |-> IF missing = {} THEN "ptr" ELSE "NULL",
         regions |-> [i \in 1 .. upto |->
                         f[FileColumnName(filePath, fileName, i - 1)]]]

\* ConnectFileBackedMatrix<T>
ConnectFileBackedMatrix(f, fileName, filePath) ==
    IF filePath \o fileName \in DOMAIN f
    THEN [threw |-> FALSE, matrix |-> "addr",
          regions |-> <<f[filePath \o fileName]>>]
    ELSE [threw |-> TRUE, matrix |-> "NULL", regions |-> << >>]

RECURSIVE CreateFileBackedSepMatrix(_, _, _, _, _, _, _, _, _)
(***************************************************************************)
(* CreateFileBackedSepMatrix<T>, from iteration i on: a failed open        *)
(* returns NULL at once; after the loop the files are mapped.              *)
(***************************************************************************)
CreateFileBackedSepMatrix(f, m, fileName, filePath, nrow, ncol, w, i, fail) ==
    IF i = ncol
    THEN LET c == ConnectFileBackedSepMatrix(f, fileName, filePath, ncol)
         IN  [matrix |-> c.matrix, fs |-> f, mem |-> m, regions |-> c.regions]
    ELSE IF FailsAt(fail, i, "open")
    THEN [matrix |-> "NULL", fs |-> f, mem |-> m, regions |-> << >>]
    ELSE LET r == MakeFile(f, m, FileColumnName(filePath, fileName, i), nrow, w)
         IN  CreateFileBackedSepMatrix(r.fs, r.mem, fileName, filePath,
                                       nrow, ncol, w, i + 1, fail)

\* CreateFileBackedMatrix<T>
CreateFileBackedMatrix(f, m, fileName, filePath, nrow, ncol, w, fail) ==
    IF FailsAt(fail, 0, "open")
    THEN [matrix |-> "NULL", fs |-> f, mem |-> m, regions |-> << >>]
    ELSE LET r == MakeFile(f, m, filePath \o fileName, nrow * ncol, w)
             c == ConnectFileBackedMatrix(r.fs, fileName, filePath)
         IN  [matrix |-> c.matrix, fs |-> r.fs, mem |-> r.mem,
              regions |-> c.regions]

(***************************************************************************)
(* FileBackedBigMatrix::create on a new object of holder p.  The path      *)
(* "if (!_matrix) return false" leaves the counter mutex locked.           *)
(***************************************************************************)
FileBackedBigMatrix_create(p, fileName, filePath, numRow, numCol, matrixType, sepCols, preserve, fail) ==
    LET uuid == Uuid(nextUuid + 1)
        sharedName == fileName \o uuid
        r == IF sepCols
             THEN CreateFileBackedSepMatrix(fs, mem, fileName, filePath, numRow,
                                            numCol, matrixType, 0, fail)
             ELSE CreateFileBackedMatrix(fs, mem, fileName, filePath, numRow,
                                         numCol, matrixType, fail)
        obj == [FreshHandle EXCEPT
                   !.cls = "file", !.uuid = uuid, !.sharedName = sharedName,
                   !.fileName = fileName,
                   !.nrow = numRow, !.ncol = numCol, !.matType = matrixType,
                   !.sepCols = sepCols, !.preserve = preserve,
                   !.matrix = r.matrix, !.regions = r.regions,
                   !.counter = CounterName(sharedName), !.how = "create", !.op = "create"]
    IN  /\ h[p].cls = "none"
        /\ nextUuid < MaxCreates
        /\ CanLock(CreateUuidMutexName)
        /\ CanLock(CounterMutexName(sharedName))
        /\ nextUuid' = nextUuid + 1
        /\ shm' = SharedCounter_init(shm, CounterName(sharedName))
        /\ fs' = r.fs
        /\ mem' = r.mem
        /\ IF r.matrix = "NULL"
           THEN /\ nmx' = With(nmx, CounterMutexName(sharedName), TRUE)
                /\ locks' = locks
                /\ h' = [h EXCEPT ![p] = [obj EXCEPT !.res = "false"]]
                /\ known' = known
           ELSE /\ nmx' = nmx
                /\ locks' = BigMemoryMutex_init(
                                CreateMutexes(locks, sharedName, numCol),
                                MutexLockName(sharedName))
                /\ h' = [h EXCEPT ![p] =
                            [obj EXCEPT !.mutexPtrs = MutexPtrs(sharedName, numCol),
                                        !.mutexLock = MutexLockName(sharedName),
                                        !.res = "true"]]
                /\ known' = With(known, sharedName,
                                 [cls |-> "file", fileName |-> fileName,
                                  filePath |-> filePath, nrow |-> numRow,
                                  ncol |-> numCol, matType |-> matrixType,
                                  sepCols |-> sepCols])
        /\ UNCHANGED <<lastW, lk, call, heap, cell, tm, out>>

(***************************************************************************)
(* FileBackedBigMatrix::connect on a new object of holder p.               *)
(***************************************************************************)
FileBackedBigMatrix_connect(p, sharedName, fileName, filePath, numRow, numCol, matrixType, sepCols, preserve) ==
    LET r == IF sepCols
             THEN ConnectFileBackedSepMatrix(fs, fileName, filePath, numCol)
             ELSE ConnectFileBackedMatrix(fs, fileName, filePath)
        obj == [FreshHandle EXCEPT
                   !.cls = "file", !.sharedName = sharedName,
                   !.fileName = fileName,
                   !.nrow = numRow, !.ncol = numCol, !.matType = matrixType,
                   !.sepCols = sepCols, !.preserve = preserve,
                   !.matrix = r.matrix, !.regions = r.regions,
                   !.counter = CounterName(sharedName), !.how = "connect", !.op = "connect"]
    IN  /\ h[p].cls = "none"
        /\ CanLock(CounterMutexName(sharedName))
        /\ shm' = SharedCounter_init(shm, CounterName(sharedName))
        /\ IF r.threw
           THEN /\ nmx' = With(nmx, CounterMutexName(sharedName), TRUE)
                /\ locks' = locks
                /\ h' = [h EXCEPT ![p] = [obj EXCEPT !.res = "interprocess_exception"]]
           ELSE /\ nmx' = nmx
                /\ locks' = BigMemoryMutex_init(
                                CreateMutexes(locks, sharedName, numCol),
                                MutexLockName(sharedName))
                /\ h' = [h EXCEPT ![p] =
                            [obj EXCEPT !.mutexPtrs = MutexPtrs(sharedName, numCol),
                                        !.mutexLock = MutexLockName(sharedName),
                                        !.res = "true"]]
        /\ UNCHANGED <<fs, mem, nextUuid, known, lastW, lk, call, heap, cell, tm, out>>

RECURSIVE DestroyFileBackedSepMatrix(_, _, _, _, _, _)
(***************************************************************************)
(* DestroyFileBackedSepMatrix, the first n iterations: removes the shared- *)
(* memory name sharedName_column_i and, unless preserve, unlinks the file  *)
(* named fileName_column_i.  Returns the pair of namespaces.               *)
(***************************************************************************)
DestroyFileBackedSepMatrix(s, f, sharedName, n, fileName, preserve) ==
    IF n = 0 THEN [shm |-> s, fs |-> f]
    ELSE LET r == DestroyFileBackedSepMatrix(s, f, sharedName, n - 1,
                                             fileName, preserve)
         IN  [shm |-> shm_remove(r.shm, ColumnName(sharedName, n - 1)),
              fs |-> IF preserve THEN r.fs
                     ELSE unlink(r.fs, fileName \o <<"_column_">> \o ttos(n - 1))]

(***************************************************************************)
(* FileBackedBigMatrix::destroy by holder p.                               *)
(***************************************************************************)
FileBackedBigMatrix_destroy(p) ==
    LET o == h[p]
        last == SharedCounter_get(shm, o.counter) = 1
        r == IF ~last THEN [shm |-> shm, fs |-> fs]
             ELSE IF o.sepCols
             THEN DestroyFileBackedSepMatrix(shm, fs, o.sharedName, o.ncol,
                                             o.fileName, o.preserve)
             ELSE [shm |-> shm_remove(shm, o.sharedName),
                   fs |-> IF o.preserve THEN fs ELSE unlink(fs, o.fileName)]
        L1 == IF last
              THEN BigMemoryMutex_destroy(DestroyMutexes(locks, o.mutexPtrs, 1),
                                          o.mutexLock)
              ELSE locks
    IN  /\ o.cls = "file"
        /\ Attached(p)
        /\ CanLock(CounterMutexName(o.sharedName))
        /\ shm' = r.shm
        /\ fs' = r.fs
        /\ locks' = L1
        /\ h' = [h EXCEPT ![p] =
                    [o EXCEPT !.regions = << >>,
                              !.matrix = IF o.matrix = "NULL" THEN "NULL"
                                         ELSE "dangling",
                              !.op = "destroy", !.res = "true"]]
        /\ UNCHANGED <<mem, nmx, nextUuid, known, lastW, lk, call, heap, cell, tm, out>>


(***************************************************************************)
(* Element access through the accessors: column col of a Separated matrix  *)
(* is its col-th region, of a Contiguous matrix the offset col*nrow of the *)
(* single region.                                                          *)
(***************************************************************************)
ColumnObj(o, col) == IF o.sepCols THEN o.regions[col + 1] ELSE o.regions[1]
ColumnBase(o, col) == IF o.sepCols THEN 0 ELSE col * o.nrow

\* the element (row, col) as holder p's accessor reads it
ReadElement(p, row, col) ==
    LET o == h[p]
        cells == mem[ColumnObj(o, col)].cells
        k == ColumnBase(o, col) + row
    IN  IF k \in DOMAIN cells THEN cells[k] ELSE -1

\* SetMatrixElements storing the value in every row of the column
SetMatrixElements_WholeColumn(p, row, col, v) ==
    LET o == h[p]
        obj == ColumnObj(o, col)
        base == ColumnBase(o, col)
    IN  /\ Attached(p)
        /\ row \in 0 .. o.nrow - 1
        /\ col \in 0 .. o.ncol - 1
        /\ mem[obj].cells[base + row] # v
        /\ mem' = [mem EXCEPT ![obj].cells =
                      [j \in DOMAIN @ |->
                          IF j \in base .. base + o.nrow - 1 THEN v ELSE @[j]]]
        /\ lastW' = With(lastW, <<o.sharedName, row, col>>, v)
        /\ UNCHANGED <<shm, fs, nmx, locks, h, nextUuid, known, lk, call, heap, cell, tm, out>>

\* SetMatrixElements with one row, one column and one value in range
SetMatrixElements(p, row, col, v) ==
    LET o == h[p]
        obj == ColumnObj(o, col)
        k == ColumnBase(o, col) + row
    IN  /\ Attached(p)
        /\ row \in 0 .. o.nrow - 1
        /\ col \in 0 .. o.ncol - 1
        /\ k \in DOMAIN mem[obj].cells
        /\ mem[obj].cells[k] # v
        /\ mem' = [mem EXCEPT ![obj].cells[k] = v]
        /\ lastW' = With(lastW, <<o.sharedName, row, col>>, v)
        /\ UNCHANGED <<shm, fs, nmx, locks, h, nextUuid, known, lk, call, heap, cell, tm, out>>

(***************************************************************************)
(* The calls of the binding layer on the lowest unused holder p.           *)
(***************************************************************************)
Unused(p) == h[p].cls = "none" /\ \A q \in Handles : q < p => h[q].cls # "none"

\* CCreateSharedMatrix for the element types `types`, with or without an
\* injected failure
CreateShared(p, types, inject) ==
    /\ Unused(p)
    /\ \E nr \in Rows, nc \in 1 .. MaxCols, t \in types, sep \in BOOLEAN :
         \E fail \in IF inject THEN ShmFails(IF sep THEN nc ELSE 1) ELSE {NoFail} :
            SharedMemoryBigMatrix_create(p, nr, nc, t, sep, fail)

CCreateSharedMatrix(p) == CreateShared(p, Types, TRUE)

\* CAttachSharedBigMatrix with the shape the creator used
CAttachSharedBigMatrix(p) ==
    /\ Unused(p)
    /\ \E id \in DOMAIN known :
         /\ known[id].cls = "shm"
         /\ SharedMemoryBigMatrix_connect(p, id, known[id].nrow, known[id].ncol,
                                          known[id].matType, known[id].sepCols)

\* CCreateFileBackedBigMatrix for the element types `types`, with or without
\* an injected failure
CreateFileBacked(p, types, inject) ==
    /\ Unused(p)
    /\ \E fn \in FileNames, fp \in FilePaths, nr \in Rows, nc \in 1 .. MaxCols :
         \E t \in types, sep \in BOOLEAN, pres \in BOOLEAN :
            \E fail \in IF inject THEN FileFails(IF sep THEN nc ELSE 1) ELSE {NoFail} :
               FileBackedBigMatrix_create(p, fn, fp, nr, nc, t, sep, pres, fail)

CCreateFileBackedBigMatrix(p) == CreateFileBacked(p, Types, TRUE)

\* CAttachFileBackedBigMatrix, which passes true for preserve
CAttachFileBackedBigMatrix(p) ==
    /\ Unused(p)
    /\ \E id \in DOMAIN known :
         /\ known[id].cls = "file"
         /\ FileBackedBigMatrix_connect(p, id, known[id].fileName,
                known[id].filePath, known[id].nrow, known[id].ncol,
                known[id].matType, known[id].sepCols, TRUE)

\* CDestroySharedMatrix
CDestroySharedMatrix(p) ==
    SharedMemoryBigMatrix_destroy(p) \/ FileBackedBigMatrix_destroy(p)

(***************************************************************************)
(* BigMemoryMutex as a reader/writer lock: read_lock() returns while no    *)
(* read_write hold exists on the name, read_write_lock() while no hold     *)
(* exists on it, unlock() gives up the hold of the calling process.        *)
(***************************************************************************)
Holds(H, name) == {x \in H : x[1] = name}

BigMemoryMutex_can_read_lock(H, name) ==
    \A x \in Holds(H, name) : x[3] # "read_write"
BigMemoryMutex_can_read_write_lock(H, name) == Holds(H, name) = {}
BigMemoryMutex_read_lock(H, name, p) == H \cup {<<name, p, "read">>}
BigMemoryMutex_read_write_lock(H, name, p) == H \cup {<<name, p, "read_write">>}
BigMemoryMutex_unlock(H, name, p) == {x \in H : ~(x[1] = name /\ x[2] = p)}

(***************************************************************************)
(* The batched lock calls of SharedBigMatrix, one statement per step.      *)
(* A call is at "mutexLock" before _mutexLock.read_write_lock(), at "loop" *)
(* before the statement of the loop for cols[i], at "mutexUnlock" before   *)
(* _mutexLock.unlock() and at "return" before it returns.  log lists the   *)
(* lock statements the call has executed, granted the column locks the     *)
(* process was given and has not unlocked, each with the method that       *)
(* returned it.                                                            *)
(***************************************************************************)
IdleCall ==
    [op |-> "none", pc |-> "idle", lockCols |-> << >>, cols |-> << >>,
     i |-> 0, log |-> << >>, granted |-> {}]

\* the column lists a caller passes: R column numbers, each at most once
Batches(ncol) ==
    {b \in UNION {[1 .. n -> 1 .. ncol] : n \in 1 .. MaxBatch} :
        \A j, k \in DOMAIN b : j # k => b[j] # b[k]}

\* the loop of the bindings that turns R column numbers into indexes
Indexes(lockCols) == [k \in 1 .. Len(lockCols) |-> lockCols[k] - 1]

\* cols[i] of the loops over the vector cols
ColumnAt_Reversed(cols, i) == cols[Len(cols) - i]

ColumnAt(cols, i) == cols[i + 1]

\* _mutexPtrs[col] of object o
MutexPtr(o, col) == o.mutexPtrs[col + 1]

HoldsColumn(p, col) == \E x \in Holds(lk, MutexPtr(h[p], col)) : x[2] = p

\* a binding entering the method op with the indexes of lockCols
EnterCall(p, op, lockCols, first) ==
    /\ Attached(p)
    /\ call[p].pc = "idle"
    /\ call' = [call EXCEPT ![p] =
                   [op |-> op, pc |-> first, lockCols |-> lockCols,
                    cols |-> Indexes(lockCols), i |-> 0, log |-> << >>,
                    granted |-> call[p].granted]]
    /\ UNCHANGED <<lifeVars, lk>>

\* BigMatrixRLock, on columns the caller holds no lock on
BigMatrixRLock(p) ==
    \E lockCols \in Batches(h[p].ncol) :
        /\ \A k \in DOMAIN lockCols : ~HoldsColumn(p, lockCols[k] - 1)
        /\ EnterCall(p, "read_lock", lockCols, "mutexLock")

\* BigMatrixRWLock, on columns the caller holds no lock on
BigMatrixRWLock(p) ==
    \E lockCols \in Batches(h[p].ncol) :
        /\ \A k \in DOMAIN lockCols : ~HoldsColumn(p, lockCols[k] - 1)
        /\ EnterCall(p, "read_write_lock", lockCols, "mutexLock")

\* BigMatrixRelease, on columns the caller holds a lock on
BigMatrixRelease(p) ==
    \E lockCols \in Batches(h[p].ncol) :
        /\ \A k \in DOMAIN lockCols : HoldsColumn(p, lockCols[k] - 1)
        /\ EnterCall(p, "unlock", lockCols, "loop")

(***************************************************************************)
(* The statement of each loop for cols[i]: whether it returns in the       *)
(* state H of the locks, and the state it leaves.                          *)
(***************************************************************************)
\* _mutexPtrs[ cols[i] ]->read_lock() taking the lock for writing
read_lock_column_Exclusive(H, o, cols, i, p) ==
    LET name == MutexPtr(o, ColumnAt(cols, i))
    IN  [name |-> name, can |-> BigMemoryMutex_can_read_write_lock(H, name),
         after |-> BigMemoryMutex_read_write_lock(H, name, p)]

\* _mutexPtrs[ cols[i] ]->read_lock()
read_lock_column(H, o, cols, i, p) ==
    LET name == MutexPtr(o, ColumnAt(cols, i))
    IN  [name |-> name, can |-> BigMemoryMutex_can_read_lock(H, name),
         after |-> BigMemoryMutex_read_lock(H, name, p)]

\* _mutexPtrs[ cols[i] ]->read_write_lock() taking the lock for reading
read_write_lock_column_Shared(H, o, cols, i, p) ==
    LET name == MutexPtr(o, ColumnAt(cols, i))
    IN  [name |-> name, can |-> BigMemoryMutex_can_read_lock(H, name),
         after |-> BigMemoryMutex_read_lock(H, name, p)]

\* _mutexPtrs[ cols[i] ]->read_write_lock()
read_write_lock_column(H, o, cols, i, p) ==
    LET name == MutexPtr(o, ColumnAt(cols, i))
    IN  [name |-> name, can |-> BigMemoryMutex_can_read_write_lock(H, name),
         after |-> BigMemoryMutex_read_write_lock(H, name, p)]

\* _mutexPtrs[ i ]->unlock(), the loop counter in place of cols[i]
unlock_column_ByCounter(H, o, cols, i, p) ==
    LET name == MutexPtr(o, i)
    IN  [name |-> name, can |-> TRUE, after |-> BigMemoryMutex_unlock(H, name, p)]

\* _mutexPtrs[ cols[i] ]->unlock()
unlock_column(H, o, cols, i, p) ==
    LET name == MutexPtr(o, ColumnAt(cols, i))
    IN  [name |-> name, can |-> TRUE, after |-> BigMemoryMutex_unlock(H, name, p)]

\* _mutexLock.read_write_lock() taking the structural lock for reading
mutexLock_read_write_lock_Shared(H, o, p) ==
    [can |-> BigMemoryMutex_can_read_lock(H, o.mutexLock),
     after |-> BigMemoryMutex_read_lock(H, o.mutexLock, p)]

\* _mutexLock.read_write_lock(), the first statement of read_lock and of
\* read_write_lock
mutexLock_read_write_lock(H, o, p) ==
    [can |-> BigMemoryMutex_can_read_write_lock(H, o.mutexLock),
     after |-> BigMemoryMutex_read_write_lock(H, o.mutexLock, p)]

\* call[p] after the statement named ev, continuing at pc
Advance(p, pc, i, ev) ==
    [call EXCEPT ![p].pc = pc, ![p].i = i, ![p].log = Append(@, ev)]

\* the next statement of read_lock / read_write_lock, r being the loop
\* statement for cols[i]
LockCall(p, op, r) ==
    LET o == h[p]
        c == call[p]
    IN  /\ c.op = op
        /\ \/ /\ c.pc = "mutexLock"
              /\ mutexLock_read_write_lock(lk, o, p).can
              /\ lk' = mutexLock_read_write_lock(lk, o, p).after
              /\ call' = Advance(p, "loop", 0, <<"read_write_lock", o.mutexLock>>)
           \/ /\ c.pc = "loop"
              /\ r.can
              /\ lk' = r.after
              /\ call' = [Advance(p, IF c.i + 1 < Len(c.cols) THEN "loop"
                                     ELSE "mutexUnlock",
                                  c.i + 1, <<op, r.name>>)
                             EXCEPT ![p].granted = @ \cup {<<r.name, op>>}]
           \/ /\ c.pc = "mutexUnlock"
              /\ lk' = BigMemoryMutex_unlock(lk, o.mutexLock, p)
              /\ call' = Advance(p, "return", c.i, <<"unlock", o.mutexLock>>)
        /\ UNCHANGED lifeVars

\* SharedBigMatrix::read_lock
read_lock(p) ==
    LockCall(p, "read_lock",
             read_lock_column(lk, h[p], call[p].cols, call[p].i, p))

\* SharedBigMatrix::read_write_lock
read_write_lock(p) ==
    LockCall(p, "read_write_lock",
             read_write_lock_column(lk, h[p], call[p].cols, call[p].i, p))

\* SharedBigMatrix::unlock with its two commented-out statements restored:
\* the loop runs under the structural lock
unlock_UnderMutexLock(p) ==
    LET o == h[p]
        c == call[p]
        r == unlock_column(lk, o, c.cols, c.i, p)
    IN  /\ c.op = "unlock"
        /\ c.pc = "loop"
        /\ BigMemoryMutex_can_read_write_lock(lk, o.mutexLock)
        /\ lk' = r.after
        /\ call' = [Advance(p, IF c.i + 1 < Len(c.cols) THEN "loop" ELSE "return",
                            c.i + 1, <<"unlock", r.name>>)
                       EXCEPT ![p].granted = {x \in @ : x[1] # r.name}]
        /\ UNCHANGED lifeVars

\* SharedBigMatrix::unlock: the loop only
unlock(p) ==
    LET o == h[p]
        c == call[p]
        r == unlock_column(lk, o, c.cols, c.i, p)
    IN  /\ c.op = "unlock"
        /\ c.pc = "loop"
        /\ r.can
        /\ lk' = r.after
        /\ call' = [Advance(p, IF c.i + 1 < Len(c.cols) THEN "loop" ELSE "return",
                            c.i + 1, <<"unlock", r.name>>)
                       EXCEPT ![p].granted = {x \in @ : x[1] # r.name}]
        /\ UNCHANGED lifeVars

\* the method returns true and the binding returns
Return(p) ==
    /\ call[p].pc = "return"
    /\ call' = [call EXCEPT ![p] = [IdleCall EXCEPT !.granted = call[p].granted]]
    /\ UNCHANGED <<lifeVars, lk>>

(***************************************************************************)
(* The transient named mutexes, one statement per step.  A named_mutex is  *)
(* an object of the system that a name leads to: open_or_create returns    *)
(* the object the name leads to, or a new unlocked object under that name; *)
(* lock() waits on the object; named_mutex::remove(name) takes the name    *)
(* away, and processes that opened the object keep using it.               *)
(* tm.names maps the names to objects, tm.owner gives for each object the  *)
(* holder that locked it (0: unlocked), tm.proc the statement each holder  *)
(* is at, tm.releases counts the removals of the data segments.            *)
(***************************************************************************)
IdleProc == [pc |-> "idle", op |-> "none", obj |-> 0, id |-> NoName]

NoMutexes ==
    [names |-> << >>, owner |-> << >>, proc |-> [p \in Handles |-> IdleProc],
     releases |-> 0]

\* named_mutex mutex(open_or_create, name) by holder p entering operation op
named_mutex_open_or_create(T, name, p, op, id) ==
    LET new == Len(T.owner) + 1
        entered(obj) == [pc |-> "lock", op |-> op, obj |-> obj, id |-> id]
    IN  IF name \in DOMAIN T.names
        THEN [T EXCEPT !.proc[p] = entered(T.names[name])]
        ELSE [T EXCEPT !.names = With(@, name, new), !.owner = Append(@, 0),
                       !.proc[p] = entered(new)]

\* mutex.lock(): returns while the object is unlocked
named_mutex_lock(p) ==
    LET c == tm.proc[p]
    IN  /\ c.pc = "lock"
        /\ tm.owner[c.obj] = 0
        /\ tm' = [tm EXCEPT !.owner[c.obj] = p,
                            !.proc[p].pc = IF c.op = "connect" THEN "init"
                                           ELSE "data"]
        /\ UNCHANGED <<shm, fs, mem, nmx, locks, h, nextUuid, known, lastW,
                       lk, call, heap, cell, out>>

\* mutex.unlock()
named_mutex_unlock(p) ==
    LET c == tm.proc[p]
    IN  /\ c.pc = "unlock"
        /\ tm' = [tm EXCEPT !.owner[c.obj] = 0, !.proc[p].pc = "remove"]
        /\ UNCHANGED <<shm, fs, mem, nmx, locks, h, nextUuid, known, lastW,
                       lk, call, heap, cell, out>>

\* named_mutex::remove(name) and the return of the operation
named_mutex_remove(p) ==
    LET c == tm.proc[p]
        name == CounterMutexName(c.id)
    IN  /\ c.pc = "remove"
        /\ tm' = [tm EXCEPT !.names = IF name \in DOMAIN @ THEN Without(@, name)
                                      ELSE @,
                            !.proc[p] = IdleProc]
        /\ h' = [h EXCEPT ![p].res = "true"]
        /\ UNCHANGED <<shm, fs, mem, nmx, locks, nextUuid, known, lastW,
                       lk, call, heap, cell, out>>

\* CAttachSharedBigMatrix: a new object and the first statement of connect()
connect_open(p) ==
    /\ Unused(p)
    /\ tm.proc[p].pc = "idle"
    /\ \E id \in DOMAIN known :
         /\ known[id].cls = "shm"
         /\ tm' = named_mutex_open_or_create(tm, CounterMutexName(id), p,
                                             "connect", id)
         /\ h' = [h EXCEPT ![p].cls = "shm"]
    /\ UNCHANGED <<shm, fs, mem, nmx, locks, nextUuid, known, lastW,
                   lk, call, heap, cell, out>>

\* connect(): the assignments of the fields and _sharedCounter.init
connect_init(p) ==
    LET id == tm.proc[p].id
        k == known[id]
    IN  /\ tm.proc[p].pc = "init"
        /\ shm' = SharedCounter_init(shm, CounterName(id))
        /\ h' = [h EXCEPT ![p] =
                    [@ EXCEPT !.uuid = id, !.sharedName = id, !.nrow = k.nrow,
                              !.ncol = k.ncol, !.matType = k.matType,
                              !.sepCols = k.sepCols,
                              !.counter = CounterName(id),
                              !.how = "connect", !.op = "connect",
                              !.res = "pending"]]
        /\ tm' = [tm EXCEPT !.proc[p].pc = "attach"]
        /\ UNCHANGED <<fs, mem, nmx, locks, nextUuid, known, lastW,
                       lk, call, heap, cell, out>>

\* connect(): ConnectShared(Sep)Matrix, whose exception leaves connect()
\* with the mutex locked, then CreateMutexes and _mutexLock.init
connect_attach(p) ==
    LET o == h[p]
        r == IF o.sepCols THEN ConnectSharedSepMatrix(shm, o.sharedName, o.ncol)
             ELSE ConnectSharedMatrix(shm, o.sharedName)
    IN  /\ tm.proc[p].pc = "attach"
        /\ IF r.threw
           THEN /\ h' = [h EXCEPT ![p].matrix = r.matrix,
                                  ![p].regions = r.regions,
                                  ![p].res = "interprocess_exception"]
                /\ locks' = locks
                /\ tm' = [tm EXCEPT !.proc[p] = IdleProc]
           ELSE /\ h' = [h EXCEPT ![p].matrix = r.matrix,
                                  ![p].regions = r.regions,
                                  ![p].mutexPtrs = MutexPtrs(o.sharedName, o.ncol),
                                  ![p].mutexLock = MutexLockName(o.sharedName)]
                /\ locks' = BigMemoryMutex_init(
                                CreateMutexes(locks, o.sharedName, o.ncol),
                                MutexLockName(o.sharedName))
                /\ tm' = [tm EXCEPT !.proc[p].pc = "unlock"]
        /\ UNCHANGED <<shm, fs, mem, nmx, nextUuid, known, lastW,
                       lk, call, heap, cell, out>>

\* CDestroySharedMatrix: the first statement of destroy()
destroy_open(p) ==
    /\ h[p].cls = "shm"
    /\ Attached(p)
    /\ tm.proc[p].pc = "idle"
    /\ tm' = named_mutex_open_or_create(tm, CounterMutexName(h[p].sharedName),
                                        p, "destroy", h[p].sharedName)
    /\ UNCHANGED <<shm, fs, mem, nmx, locks, h, nextUuid, known, lastW,
                   lk, call, heap, cell, out>>

\* destroy(): _dataRegionPtrs.resize(0) and the removal of the data
\* segments if _sharedCounter.get() == 1
destroy_data(p) ==
    LET o == h[p]
        last == SharedCounter_get(shm, o.counter) = 1
    IN  /\ tm.proc[p].pc = "data"
        /\ shm' = IF ~last THEN shm
                  ELSE IF o.sepCols THEN DestroySharedSepMatrix(shm, o.uuid, o.ncol)
                  ELSE shm_remove(shm, o.uuid)
        /\ h' = [h EXCEPT ![p].regions = << >>,
                          ![p].matrix = IF o.matrix = "NULL" THEN "NULL"
                                        ELSE "dangling",
                          ![p].op = "destroy", ![p].res = "pending"]
        /\ tm' = [tm EXCEPT !.proc[p].pc = "mutexes",
                            !.releases = IF last THEN @ + 1 ELSE @]
        /\ UNCHANGED <<fs, mem, nmx, locks, nextUuid, known, lastW,
                       lk, call, heap, cell, out>>

\* destroy(): the destruction of the locks if _sharedCounter.get() == 1
destroy_mutexes(p) ==
    LET o == h[p]
        last == SharedCounter_get(shm, o.counter) = 1
    IN  /\ tm.proc[p].pc = "mutexes"
        /\ locks' = IF last
                    THEN BigMemoryMutex_destroy(
                             DestroyMutexes(locks, o.mutexPtrs, 1), o.mutexLock)
                    ELSE locks
        /\ tm' = [tm EXCEPT !.proc[p].pc = "reset"]
        /\ UNCHANGED <<shm, fs, mem, nmx, h, nextUuid, known, lastW,
                       lk, call, heap, cell, out>>

\* destroy(): _sharedCounter.reset()
destroy_reset(p) ==
    /\ tm.proc[p].pc = "reset"
    /\ shm' = SharedCounter_reset(shm, h[p].counter)
    /\ h' = [h EXCEPT ![p].counter = NoName]
    /\ tm' = [tm EXCEPT !.proc[p].pc = "unlock"]
    /\ UNCHANGED <<fs, mem, nmx, locks, nextUuid, known, lastW,
                   lk, call, heap, cell, out>>

Init ==
    /\ shm = << >>
    /\ fs = << >>
    /\ mem = << >>
    /\ nmx = << >>
    /\ locks = {}
    /\ h = [p \in Handles |-> FreshHandle]
    /\ nextUuid = 0
    /\ known = << >>
    /\ lastW = << >>
    /\ lk = {}
    /\ call = [p \in Handles |-> IdleCall]
    /\ heap = << >>
    /\ tm = NoMutexes
    /\ out = [fn |-> "none", args |-> << >>, ret |-> << >>]
    /\ cell = [type |-> 0, path |-> "none", val |-> [lev |-> 0, n |-> 0],
               stored |-> [lev |-> 0, n |-> 0],
               got |-> [lev |-> 0, n |-> 0]]

Next ==
    \E p \in Handles :
        \/ CCreateSharedMatrix(p)
        \/ CAttachSharedBigMatrix(p)
        \/ CCreateFileBackedBigMatrix(p)
        \/ CAttachFileBackedBigMatrix(p)
        \/ CDestroySharedMatrix(p)

Spec == Init /\ [][Next]_vars

(***************************************************************************)
(* The lifecycle with element writes, for Int32 matrices and without       *)
(* injected failures.                                                      *)
(***************************************************************************)
NextData ==
    \E p \in Handles :
        \/ CreateShared(p, {4}, FALSE)
        \/ CAttachSharedBigMatrix(p)
        \/ CreateFileBacked(p, {4}, FALSE)
        \/ CAttachFileBackedBigMatrix(p)
        \/ CDestroySharedMatrix(p)
        \/ \E row \in 0 .. 0, col \in 0 .. MaxCols - 1, v \in Vals :
              SetMatrixElements(p, row, col, v)

SpecData == Init /\ [][NextData]_vars

(***************************************************************************)
(* Locking: one shared-memory matrix of MaxCols columns, the processes     *)
(* attached to it and their batched lock calls.                            *)
(***************************************************************************)
NextLock ==
    \E p \in Handles :
        \/ /\ Unused(p)
           /\ known = << >>
           /\ \E sep \in BOOLEAN :
                 SharedMemoryBigMatrix_create(p, 1, MaxCols, 4, sep, NoFail)
        \/ CAttachSharedBigMatrix(p)
        \/ BigMatrixRLock(p)
        \/ BigMatrixRWLock(p)
        \/ BigMatrixRelease(p)
        \/ read_lock(p)
        \/ read_write_lock(p)
        \/ unlock(p)
        \/ Return(p)

SpecLock == Init /\ [][NextLock]_vars

(***************************************************************************)
(* One shared-memory matrix; the holders attach to it and detach from it   *)
(* concurrently, statement by statement.                                   *)
(***************************************************************************)
NextGuard ==
    \E p \in Handles :
        \/ /\ Unused(p)
           /\ known = << >>
           /\ \E sep \in BOOLEAN :
                 SharedMemoryBigMatrix_create(p, 1, MaxCols, 4, sep, NoFail)
        \/ connect_open(p)
        \/ connect_init(p)
        \/ connect_attach(p)
        \/ destroy_open(p)
        \/ destroy_data(p)
        \/ destroy_mutexes(p)
        \/ destroy_reset(p)
        \/ named_mutex_lock(p)
        \/ named_mutex_unlock(p)
        \/ named_mutex_remove(p)

SpecGuard == Init /\ [][NextGuard]_vars


(***************************************************************************)
(* Vocabulary of the lifecycle claims.                                     *)
(***************************************************************************)
\* the holders whose create() or connect() on identity id succeeded and that
\* have not called destroy()
LiveAttachments(id) == {p \in Handles : h[p].sharedName = id /\ Attached(p)}

\* the value of the reference counter of identity id, 0 when it does not exist
RefCount(id) == SharedCounter_get(shm, CounterName(id))

\* the named data segments, column locks and structural lock of identity id
SharedNames(id) ==
    {n \in DOMAIN shm : IsPrefix(id, n) /\ shm[n].kind = "data"}
        \cup {n \in locks : IsPrefix(id, n)}

\* the step in which holder p calls destroy()
DestroyStep(p) == h[p].op # "destroy" /\ h'[p].op = "destroy"
\* the step in which holder p calls connect()
ConnectStep(p) == h[p].op = "none" /\ h'[p].op = "connect"

\* the files create() made for the matrix remembered as k
BackingFiles(k) ==
    IF k.sepCols
    THEN {FileColumnName(k.filePath, k.fileName, i) : i \in 0 .. k.ncol - 1}
    ELSE {k.filePath \o k.fileName}

\* the data segments or files a connect() with the fields of object o opens
BackingNames(o) ==
    IF o.cls = "shm"
    THEN IF o.sepCols
         THEN {ColumnName(o.sharedName, i) : i \in 0 .. o.ncol - 1}
         ELSE {o.sharedName}
    ELSE BackingFiles(known[o.sharedName])

BackingAbsent(o) ==
    \E n \in BackingNames(o) :
        IF o.cls = "shm" THEN n \notin DOMAIN shm ELSE n \notin DOMAIN fs

\* no other object was ever pointed at the identity of holder p
SoleHolder(p) ==
    \A q \in Handles : q # p => h[q].sharedName # h[p].sharedName

NoNamedResource(p) ==
    LET o == h[p]
        id == o.sharedName
    IN  /\ \A n \in DOMAIN shm : ~IsPrefix(id, n)
        /\ \A n \in locks : ~IsPrefix(id, n)
        /\ \A n \in DOMAIN nmx : ~IsPrefix(id, n)
        /\ CreateUuidMutexName \notin DOMAIN nmx
        /\ (o.cls = "file" /\ ~o.preserve) =>
              \A n \in BackingFiles(known[id]) : n \notin DOMAIN fs

(***************************************************************************)
(* C1: for a shared-memory store the reference count equals the number of  *)
(* live attachments (1 after create, 1+N after N connects, one less after  *)
(* each destroy), in every state.                                          *)
(***************************************************************************)
C1_RefCountIsLiveAttachments ==
    \A p \in Handles :
        h[p].cls = "shm" =>
            RefCount(h[p].sharedName)
                = Cardinality(LiveAttachments(h[p].sharedName))

(***************************************************************************)
(* C2: a destroy() removes named data segments, column locks or the        *)
(* structural lock of its identity if and only if it takes the reference   *)
(* count from 1 to 0.                                                      *)
(***************************************************************************)
C2_RemovedIffCountOneToZero ==
    [][\A p \in Handles :
          DestroyStep(p) =>
              LET id == h[p].sharedName
              IN  (SharedNames(id)' # SharedNames(id))
                      <=> (RefCount(id) = 1 /\ RefCount(id)' = 0)]_vars

(***************************************************************************)
(* C3: create() then destroy() by the only holder leaves no named resource *)
(* of the identity: no segment, no counter, no lock, no mutex and, with    *)
(* the persistence flag unset, no backing file.                            *)
(***************************************************************************)
C3_CreateDestroyLeavesNothing ==
    \A p \in Handles :
        (h[p].how = "create" /\ h[p].op = "destroy" /\ SoleHolder(p))
            => NoNamedResource(p)

(***************************************************************************)
(* C4: a connect() whose data segments or files are absent, and every      *)
(* shared-memory connect() to an identity without a live attachment, ends  *)
(* with the exception of the open and leaves no attached handle.           *)
(***************************************************************************)
C4_ConnectAbsentFails ==
    [][\A p \in Handles :
          ConnectStep(p) =>
              LET o == h'[p]
              IN  (BackingAbsent(o)
                      \/ (o.cls = "shm" /\ LiveAttachments(o.sharedName) = {}))
                  => (o.res = "interprocess_exception" /\ o.matrix = "NULL")]_vars

\* a shared-memory connect() to an identity whose creator has destroyed it
\* has failed
C4_Witness ==
    \E p, q \in Handles :
        /\ h[q].cls = "shm" /\ h[q].how = "create" /\ h[q].op = "destroy"
        /\ h[p].op = "connect" /\ h[p].sharedName = h[q].sharedName
        /\ h[p].res = "interprocess_exception"

(***************************************************************************)
(* C5: right after a successful connect(), every element read through the  *)
(* new handle is the last value written to it through a handle of the      *)
(* same identity.                                                          *)
(***************************************************************************)
C5_ConnectReadsLastWritten ==
    [][\A p \in Handles :
          (ConnectStep(p) /\ h'[p].res = "true") =>
              \A row \in 0 .. h'[p].nrow - 1, col \in 0 .. h'[p].ncol - 1 :
                  <<h'[p].sharedName, row, col>> \in DOMAIN lastW =>
                      ReadElement(p, row, col)'
                          = lastW[<<h'[p].sharedName, row, col>>]]_vars

(***************************************************************************)
(* C6: after a Separated shared-memory create() that failed, no column     *)
(* segment of its identity exists.                                         *)
(***************************************************************************)
C6_FailedSepCreateLeavesNoSegment ==
    \A p \in Handles :
        (h[p].cls = "shm" /\ h[p].op = "create" /\ h[p].res = "false"
            /\ h[p].sepCols)
            => \A i \in 0 .. h[p].ncol - 1 :
                   ColumnName(h[p].sharedName, i) \notin DOMAIN shm

(***************************************************************************)
(* Vocabulary of the locking claims.                                       *)
(***************************************************************************)
\* the names of the column locks of the attached processes
ColumnMutexNames ==
    UNION {{h[p].mutexPtrs[k] : k \in DOMAIN h[p].mutexPtrs} : p \in Handles}

\* the processes whose read_write_lock, read_lock on the lock `name` has
\* returned and that have not unlocked it since
Writers(name) ==
    {p \in Handles : <<name, "read_write_lock">> \in call[p].granted}
Readers(name) == {p \in Handles : <<name, "read_lock">> \in call[p].granted}

\* the lock the loop statement of the call of p is about to take
NextMutex(p) == MutexPtr(h[p], ColumnAt(call[p].cols, call[p].i))

\* process p is at the loop statement of the lock call op
AtLoop(p, op) == call[p].op = op /\ call[p].pc = "loop"

\* process p holds the structural lock
HoldsStructural(p) == <<h[p].mutexLock, p, "read_write">> \in lk

\* the lock of each column listed in the call c of object o, in the order
\* given, as events of the method `method`
ColumnEvents(o, c, method) ==
    [k \in 1 .. Len(c.lockCols) |->
        <<method, ColumnMutexName(o.sharedName, c.lockCols[k] - 1)>>]

\* structural lock, columns in order, structural unlock
BracketedEvents(o, c, method) ==
    <<<<"read_write_lock", o.mutexLock>>>> \o ColumnEvents(o, c, method)
        \o <<<<"unlock", o.mutexLock>>>>

(***************************************************************************)
(* C7: on every column lock at most one process holds the read_write lock, *)
(* and while one does no process holds a read lock on that column.         *)
(***************************************************************************)
C7_ReadWriteLockExcludes ==
    \A name \in ColumnMutexNames :
        /\ Cardinality(Writers(name)) <= 1
        /\ Writers(name) # {} => Readers(name) = {}

\* a process holds a column for writing while another process waits at the
\* loop statement for that column
C7_Witness ==
    \E p, q \in Handles :
        /\ p # q
        /\ call[q].pc = "loop" /\ call[q].op \in {"read_lock", "read_write_lock"}
        /\ p \in Writers(NextMutex(q))

C9_LockCallOrder ==
    [][\A p \in Handles :
          call'[p].op \in {"read_lock", "read_write_lock"} =>
              LET c == call'[p]
                  all == BracketedEvents(h'[p], c, c.op)
              IN  /\ IsPrefix(c.log, all)
                  /\ c.pc = "return" => c.log = all
                  /\ c.pc \in {"loop", "mutexUnlock"} => HoldsStructural(p)'
                  /\ call[p].pc = "loop" => HoldsStructural(p)]_vars

\* a batched lock call of two columns has taken all its steps
C9_Witness ==
    \E p \in Handles :
        /\ call[p].op \in {"read_lock", "read_write_lock"}
        /\ call[p].pc = "return"
        /\ Len(call[p].lockCols) = 2

InColumnLoop(p) ==
    call[p].op \in {"read_lock", "read_write_lock"} /\ call[p].pc = "loop"

C11_OneBatchAtATime ==
    \A p, q \in Handles :
        (InColumnLoop(p) /\ InColumnLoop(q)
            /\ h[p].sharedName = h[q].sharedName) => p = q

\* a process holds the first of its two column locks while another process
\* waits for the structural lock
C11_Witness ==
    \E p, q \in Handles :
        /\ p # q
        /\ InColumnLoop(p) /\ call[p].i = 1
        /\ call[q].pc = "mutexLock"

(***************************************************************************)
(* C12: after the destroy() of the last attachment of a file-backed store, *)
(* each backing file create() made exists if and only if the persistence   *)
(* flag of the destroying handle is set.                                   *)
(***************************************************************************)
C12_FilesKeptIffPreserve ==
    [][\A p \in Handles :
          (DestroyStep(p) /\ h[p].cls = "file"
              /\ RefCount(h[p].sharedName) = 1
              /\ LiveAttachments(h[p].sharedName) = {p})
              => \A n \in BackingFiles(known[h[p].sharedName]) :
                     (n \in DOMAIN fs') <=> h[p].preserve]_vars

\* the step in which holder p calls create()
CreateStep(p) == h[p].op = "none" /\ h'[p].op = "create"

(***************************************************************************)
(* C13: right after a successful file-backed create() every per-column     *)
(* file of a Separated store is nrow*width bytes long and the file of a    *)
(* Contiguous store nrow*ncol*width bytes.                                 *)
(***************************************************************************)
C13_FileLengthExact ==
    [][\A p \in Handles :
          (CreateStep(p) /\ h'[p].cls = "file" /\ h'[p].res = "true") =>
              LET o == h'[p]
                  bytes == IF o.sepCols THEN o.nrow * o.matType
                           ELSE o.nrow * o.ncol * o.matType
              IN  \A n \in BackingFiles(known'[o.sharedName]) :
                      mem'[fs'[n]].size = bytes]_vars

(***************************************************************************)
(* C14: the column-lock table of every attached handle has one entry per   *)
(* column of the matrix, the entries are different locks and every one of  *)
(* them exists, whatever the layout.                                       *)
(***************************************************************************)
C14_OneLockPerColumn ==
    \A p \in Handles :
        Attached(p) =>
            LET t == h[p].mutexPtrs
            IN  /\ Len(t) = h[p].ncol
                /\ Cardinality({t[k] : k \in DOMAIN t}) = h[p].ncol
                /\ \A k \in DOMAIN t : t[k] \in locks

\* a Contiguous file-backed matrix of two columns with a connected handle
C14_Witness ==
    \E p \in Handles :
        /\ Attached(p) /\ h[p].cls = "file" /\ h[p].how = "connect"
        /\ ~h[p].sepCols /\ h[p].ncol = 2

\* the names of the resources of the created matrix id, one per role: its
\* data segments or files, counter, column locks, structural lock and
\* creation mutex
ResourceNames(id) ==
    LET k == known[id]
    IN  {CounterName(id), CounterMutexName(id), MutexLockName(id)}
            \cup {ColumnMutexName(id, i) : i \in 0 .. k.ncol - 1}
            \cup (IF k.cls = "file" THEN BackingFiles(k)
                  ELSE IF k.sepCols
                       THEN {ColumnName(id, i) : i \in 0 .. k.ncol - 1}
                       ELSE {id})

\* the number of roles of the created matrix id
RoleCount(id) ==
    3 + known[id].ncol + (IF known[id].sepCols THEN known[id].ncol ELSE 1)

(***************************************************************************)
(* C15: the roles of one created matrix have different names, and two      *)
(* created matrices have no resource name in common, backing files         *)
(* included.                                                               *)
(***************************************************************************)
C15_NamesCollisionFree ==
    \A a, b \in DOMAIN known :
        /\ Cardinality(ResourceNames(a)) = RoleCount(a)
        /\ a # b => ResourceNames(a) \cap ResourceNames(b) = {}

(***************************************************************************)
(* The local store: a matrix in the private heap of one process.           *)
(***************************************************************************)

\* most destroy() calls made on one local object
MaxDestroys == 2

\* operator new[] for n elements of width w (w = 0: an array of pointers)
NewBlock(hp, n, w) ==
    Append(hp, [n |-> n, w |-> w, live |-> TRUE, frees |-> 0, ptrs |-> << >>])

\* operator delete / delete[] on block b
FreeBlock(hp, b) == [hp EXCEPT ![b].live = FALSE, ![b].frees = @ + 1]

\* where operator new can throw std::bad_alloc: at the pointer array
\* (at = -1) or at column `at`
LocalFails(ncol) == {NoFail} \cup [at : -1 .. ncol - 1, stage : {"new"}]

RECURSIVE CreateLocalSepColMatrix(_, _, _, _, _, _, _)
(***************************************************************************)
(* CreateLocalSepColMatrix<T>, from iteration i on: pMat is the block of   *)
(* the pointer array.  A std::bad_alloc leaves the function at once; the   *)
(* function has no handler, so what it allocated so far stays allocated.   *)
(***************************************************************************)
CreateLocalSepColMatrix(hp, nrow, ncol, w, i, pMat, fail) ==
    IF i = ncol
    THEN [threw |-> FALSE, heap |-> hp, block |-> pMat]
    ELSE IF FailsAt(fail, i, "new")
    THEN [threw |-> TRUE, heap |-> hp, block |-> 0]
    ELSE LET b == Len(hp) + 1
             hp1 == [NewBlock(hp, nrow, w) EXCEPT ![pMat].ptrs = Append(@, b)]
         IN  CreateLocalSepColMatrix(hp1, nrow, ncol, w, i + 1, pMat, fail)

\* new T[nrow*ncol]
CreateLocalMatrix(hp, nrow, ncol, w, fail) ==
    IF FailsAt(fail, -1, "new")
    THEN [threw |-> TRUE, heap |-> hp, block |-> 0]
    ELSE [threw |-> FALSE, heap |-> NewBlock(hp, nrow * ncol, w),
          block |-> Len(hp) + 1]

\* the fields create() assigns before it allocates
LocalShape(o, numRow, numCol, matrixType, sepCols) ==
    [o EXCEPT !.cls = "local", !.nrow = numRow, !.ncol = numCol,
              !.matType = matrixType, !.sepCols = sepCols]

(***************************************************************************)
(* LocalBigMatrix::create.  The catch of std::bad_alloc returns false and  *)
(* touches no field: _matrix keeps the constructor's NULL.                 *)
(***************************************************************************)
LocalBigMatrix_create(p, numRow, numCol, matrixType, sepCols, fail) ==
    LET o == LocalShape(h[p], numRow, numCol, matrixType, sepCols)
        r == IF sepCols
             THEN IF FailsAt(fail, -1, "new")
                  THEN [threw |-> TRUE, heap |-> heap, block |-> 0]
                  ELSE CreateLocalSepColMatrix(NewBlock(heap, numCol, 0),
                           numRow, numCol, matrixType, 0, Len(heap) + 1, fail)
             ELSE CreateLocalMatrix(heap, numRow, numCol, matrixType, fail)
    IN  /\ heap' = r.heap
        /\ h' = [h EXCEPT ![p] =
                    [o EXCEPT !.op = "create", !.how = "create",
                              !.res = IF r.threw THEN "false" ELSE "true",
                              !.matrix = IF r.threw THEN o.matrix
                                         ELSE IF sepCols THEN "ptr" ELSE "addr",
                              !.block = IF r.threw THEN o.block ELSE r.block]]
        /\ UNCHANGED <<shm, fs, mem, nmx, locks, nextUuid, known, lastW, lk, call, cell, tm, out>>

RECURSIVE DestroyLocalSepColMatrix(_, _, _, _)
(***************************************************************************)
(* DestroyLocalSepColMatrix, from iteration i on: delete [] of each column *)
(* then delete of the pointer array.  The pointer array came from new[];   *)
(* its element type is a pointer, so releasing it with the non-array       *)
(* delete returns the same block to the heap.                              *)
(***************************************************************************)
DestroyLocalSepColMatrix(hp, matrix, ncol, i) ==
    IF i = ncol
    THEN FreeBlock(hp, matrix)
    ELSE DestroyLocalSepColMatrix(FreeBlock(hp, hp[matrix].ptrs[i + 1]),
                                  matrix, ncol, i + 1)

\* DestroyLocalMatrix: delete [] matrix
DestroyLocalMatrix(hp, matrix) == FreeBlock(hp, matrix)

\* the three assignments that end destroy()'s guarded block
LocalCleared_Kept(o) == o
LocalCleared(o) == [o EXCEPT !.matrix = "NULL", !.ncol = 0, !.nrow = 0]

\* LocalBigMatrix::destroy
LocalBigMatrix_destroy(p) ==
    LET o == h[p]
        acts == o.matrix # "NULL" /\ o.ncol # 0 /\ o.nrow # 0
        o1 == IF acts THEN LocalCleared(o) ELSE o
    IN  /\ o.cls = "local"
        /\ o.destroys < MaxDestroys
        /\ heap' = IF ~acts THEN heap
                   ELSE IF o.sepCols
                   THEN DestroyLocalSepColMatrix(heap, o.block, o.ncol, 0)
                   ELSE DestroyLocalMatrix(heap, o.block)
        /\ h' = [h EXCEPT ![p] = [o1 EXCEPT !.op = "destroy",
                                            !.destroys = @ + 1]]
        /\ UNCHANGED <<shm, fs, mem, nmx, locks, nextUuid, known, lastW, lk, call, cell, tm, out>>

\* no BigMatrix object has been set up yet
NoObjectYet == \A q \in Handles : h[q].cls = "none"

\* CCreateMatrix: a new LocalBigMatrix and its create()
CCreateMatrix(p) ==
    /\ NoObjectYet /\ Unused(p)
    /\ \E numRow \in Rows, numCol \in 1 .. MaxCols, t \in Types, sep \in BOOLEAN :
         \E fail \in IF sep THEN LocalFails(numCol) ELSE LocalFails(0) :
            LocalBigMatrix_create(p, numRow, numCol, t, sep, fail)

(***************************************************************************)
(* One object per run: a local matrix that is created and destroyed, or a  *)
(* shared or file-backed matrix whose create() may fail.                   *)
(***************************************************************************)
NextLocal ==
    \E p \in Handles :
        \/ CCreateMatrix(p)
        \/ LocalBigMatrix_destroy(p)
        \/ NoObjectYet /\ CCreateSharedMatrix(p)
        \/ NoObjectYet /\ CCreateFileBackedBigMatrix(p)

SpecLocal == Init /\ [][NextLocal]_vars

(***************************************************************************)
(* Claims about the local store and about failed creates.                  *)
(***************************************************************************)

\* the last operation on holder p was a create() that returned false
FailedCreate(p) == h[p].op = "create" /\ h[p].res = "false"

\* C16: when a Separated local create() fails at column block k, the
\* column blocks 0..k-1 and the array of column pointers are freed before
\* it returns: a failed create() leaves no allocated block.
C16_FailedCreateLeavesNoBlock ==
    \A p \in Handles :
        (FailedCreate(p) /\ h[p].cls = "local" /\ h[p].sepCols)
            => \A b \in DOMAIN heap : ~heap[b].live

\* a destroy() call on the local object of holder p
LocalDestroyStep(p) ==
    h[p].cls = "local" /\ h'[p].destroys = h[p].destroys + 1

\* the heap blocks a local object owns through _matrix
BlocksOf(o) ==
    IF o.matrix = "NULL" THEN {}
    ELSE {o.block} \cup {heap[o.block].ptrs[k] : k \in DOMAIN heap[o.block].ptrs}

C18_FailedCreateLeavesUnset ==
    \A p \in Handles :
        FailedCreate(p) =>
            h[p].nrow = 0 /\ h[p].ncol = 0 /\ h[p].matrix = "NULL"

(***************************************************************************)
(* Assignment of values: the range test and conversion every assignment    *)
(* path applies to a value before it is stored.                            *)
(***************************************************************************)

(***************************************************************************)
(* A number of the binding layer, a C int or double.  n is the value of a  *)
(* number that fits 32 bits (lev = 0); lev orders the doubles beyond them: *)
(* -3 is -Inf, -2 the lowest finite double, -1 a finite double below every *)
(* int, 1, 2, 3 their mirror images, LevNaN a NaN.                         *)
(***************************************************************************)
LevNaN == 9
Num(n) == [lev |-> 0, n |-> n]
NegInf == [lev |-> -3, n |-> 0]
NegBig == [lev |-> -1, n |-> 0]
PosBig == [lev |-> 1, n |-> 0]
PosInf == [lev |-> 3, n |-> 0]

\* the C comparison a < b: false when either side is a NaN
Less(a, b) ==
    /\ a.lev # LevNaN /\ b.lev # LevNaN
    /\ a.lev < b.lev \/ (a.lev = b.lev /\ a.n < b.n)

\* isna() of a double
isna(x) == x.lev = LevNaN

\* the NA sentinel and the valid range of each element type
NA_CHAR == Num(-(2^7))
R_CHAR_MIN == Num(1 - 2^7)
R_CHAR_MAX == Num(2^7 - 1)
NA_SHORT == Num(-(2^15))
R_SHORT_MIN == Num(1 - 2^15)
R_SHORT_MAX == Num(2^15 - 1)
NA_INTEGER == Num(-(2^30) - 2^30)
R_INT_MIN == Num(1 - 2^30 - 2^30)
R_INT_MAX == Num(2^30 - 1 + 2^30)
NA_REAL == [lev |-> LevNaN, n |-> 0]
R_DOUBLE_MIN == [lev |-> -2, n |-> 0]
R_DOUBLE_MAX == [lev |-> 2, n |-> 0]

\* the lowest and highest value of the C integer type of w bytes
CTypeMin(w) == IF w = 4 THEN NA_INTEGER.n ELSE -(2^(8 * w - 1))
CTypeMax(w) == IF w = 4 THEN R_INT_MAX.n ELSE 2^(8 * w - 1) - 1

(***************************************************************************)
(* static_cast<CType>(x), CType of w bytes: the value itself when CType    *)
(* can hold it.  Converting any other double to an integer type is         *)
(* undefined; the builds in use then yield that type's lowest value or 0.  *)
(***************************************************************************)
StaticCast(w, x) ==
    IF w = 8 THEN {x}
    ELSE IF x.lev = 0 /\ CTypeMin(w) <= x.n /\ x.n <= CTypeMax(w) THEN {x}
    ELSE {Num(CTypeMin(w)), Num(0)}

\* the right-hand side of the store in SetMatrixElements, SetMatrixAll,
\* SetMatrixCols and SetMatrixRows
SetMatrixElements_store(w, v, NA_C, C_MIN, C_MAX) ==
    IF Less(v, C_MIN) \/ Less(C_MAX, v)
    THEN StaticCast(w, NA_C)
    ELSE StaticCast(w, v)

\* the value SetAllMatrixElements stores in every element
SetAllMatrixElements_store(w, value, NA_C, C_MIN, C_MAX) ==
    LET val == IF (Less(value, C_MIN) \/ Less(C_MAX, value)) /\ ~isna(value)
               THEN NA_C ELSE value
    IN  StaticCast(w, val)

\* <<NA_C, C_MIN, C_MAX>> as the assignment bindings pass them
AssignArgs(t) ==
    CASE t = 1 -> <<NA_CHAR, R_CHAR_MIN, R_CHAR_MAX>>
      [] t = 2 -> <<NA_SHORT, R_SHORT_MIN, R_SHORT_MAX>>
      [] t = 4 -> <<NA_INTEGER, R_INT_MIN, R_INT_MAX>>
      [] t = 8 -> <<NA_REAL, R_DOUBLE_MIN, R_DOUBLE_MAX>>

\* <<NA_C, C_MIN, C_MAX>> as CCreateMatrix and CCreateSharedMatrix pass them
\* for the initial value
CreateArgs(t) ==
    CASE t = 1 -> <<NA_CHAR, R_CHAR_MIN, R_CHAR_MAX>>
      [] t = 2 -> <<NA_SHORT, R_SHORT_MIN, R_SHORT_MAX>>
      [] t = 4 -> <<NA_CHAR, R_CHAR_MIN, R_CHAR_MAX>>
      [] t = 8 -> <<NA_REAL, R_DOUBLE_MIN, R_DOUBLE_MAX>>

\* the next number above and below x among the numbers of the model
Above(x) ==
    IF x.lev # 0 THEN [lev |-> x.lev + 1, n |-> 0]
    ELSE IF x = R_INT_MAX THEN PosBig ELSE Num(x.n + 1)
Below(x) ==
    IF x.lev # 0 THEN [lev |-> x.lev - 1, n |-> 0]
    ELSE IF x = NA_INTEGER THEN NegBig ELSE Num(x.n - 1)

\* values a caller supplies as doubles: each type's sentinel and limits,
\* their neighbours, zero, both infinities and NA
Doubles ==
    LET limits == UNION {{AssignArgs(t)[2], AssignArgs(t)[3]} : t \in Types}
    IN  limits \cup {Above(x) : x \in limits} \cup {Below(x) : x \in limits}
            \cup {Num(0), NegInf, PosInf, NA_REAL}

\* values a caller supplies in an R integer vector
Ints == {x \in Doubles : x.lev = 0}

\* the vector the bindings read for type t: int for the integer types
RValues(t) == IF t = 8 THEN Doubles ELSE Ints

\* SetMatrixElements, SetMatrixAll, SetMatrixCols, SetMatrixRows of the
\* binding: one element of a matrix of type t receives v
AssignElements(path) ==
    \E t \in Types : \E v \in RValues(t) :
        \E s \in SetMatrixElements_store(t, v, AssignArgs(t)[1],
                                         AssignArgs(t)[2], AssignArgs(t)[3]) :
            /\ cell' = [type |-> t, path |-> path, val |-> v, stored |-> s,
                        got |-> Num(0)]
            /\ UNCHANGED <<shm, fs, mem, nmx, locks, h, nextUuid, known,
                           lastW, lk, call, heap, tm, out>>

\* SetAllMatrixElements with the arguments `args` of the calling binding
AssignAll(path, args) ==
    \E t \in Types : \E v \in Doubles :
        \E s \in SetAllMatrixElements_store(t, v, args[t][1], args[t][2],
                                            args[t][3]) :
            /\ cell' = [type |-> t, path |-> path, val |-> v, stored |-> s,
                        got |-> Num(0)]
            /\ UNCHANGED <<shm, fs, mem, nmx, locks, h, nextUuid, known,
                           lastW, lk, call, heap, tm, out>>

NextAssign ==
    \/ AssignElements("SetMatrixElements")
    \/ AssignElements("SetMatrixAll")
    \/ AssignElements("SetMatrixCols")
    \/ AssignElements("SetMatrixRows")
    \/ AssignAll("SetAllMatrixElements", [t \in Types |-> AssignArgs(t)])
    \/ AssignAll("CCreateMatrix", [t \in Types |-> CreateArgs(t)])
    \/ AssignAll("CCreateSharedMatrix", [t \in Types |-> CreateArgs(t)])
    \/ AssignAll("CCreateFileBackedBigMatrix", [t \in Types |-> AssignArgs(t)])

SpecAssign == Init /\ [][NextAssign]_vars

\* v lies below the minimum or above the maximum of element type t
OutOfRange(t, v) == Less(v, AssignArgs(t)[2]) \/ Less(AssignArgs(t)[3], v)

\* C19: on every assignment path and for every element type, a supplied
\* value below the type's minimum or above its maximum is stored as the NA
\* sentinel of that same type.
C19_OutOfRangeStoredAsOwnNA ==
    (cell.path # "none" /\ OutOfRange(cell.type, cell.val))
        => cell.stored = AssignArgs(cell.type)[1]

(***************************************************************************)
(* Addressing: one shared-memory matrix of up to MaxRows rows, created     *)
(* without failure and written element by element.                         *)
(***************************************************************************)

\* largest row count of the matrix whose addressing is examined
MaxRows == 3

\* CCreateSharedMatrix of the only matrix of the run
CreateForLayout(p) ==
    /\ NoObjectYet /\ Unused(p)
    /\ \E nr \in 1 .. MaxRows, nc \in 1 .. MaxCols, t \in Types, sep \in BOOLEAN :
         SharedMemoryBigMatrix_create(p, nr, nc, t, sep, NoFail)

NextLayout ==
    \E p \in Handles :
        \/ CreateForLayout(p)
        \/ \E row \in 0 .. MaxRows - 1, col \in 0 .. MaxCols - 1, v \in Vals :
              SetMatrixElements(p, row, col, v)

SpecLayout == Init /\ [][NextLayout]_vars

\* the byte offset, inside the region of its column, of the element that
\* "pColumn = mat[col]; pColumn[row]" addresses: pColumn is a CType*
ElementByteOffset(o, row, col) == (ColumnBase(o, col) + row) * o.matType

\* the bytes of element (row, col)
ElementBytes(o, row, col) ==
    ElementByteOffset(o, row, col) .. ElementByteOffset(o, row, col) + o.matType - 1

\* C20: in a Contiguous matrix of R rows, C columns and element width w,
\* column i begins at byte i*R*w and element (r, i) at byte (i*R + r)*w;
\* distinct in-bounds elements occupy disjoint byte ranges, all inside the
\* one buffer of R*C*w bytes that create() sizes.
C20_ContiguousAddressing ==
    \A p \in Handles :
        (Attached(p) /\ h[p].cls = "shm" /\ ~h[p].sepCols) =>
            LET o == h[p]
                R == o.nrow
                C == o.ncol
                w == o.matType
                size == mem[o.regions[1]].size
                inb == (0 .. R - 1) \X (0 .. C - 1)
            IN  /\ Len(o.regions) = 1
                /\ size = R * C * w
                /\ \A i \in 0 .. C - 1 : ElementByteOffset(o, 0, i) = i * R * w
                /\ \A e \in inb :
                      /\ ElementByteOffset(o, e[1], e[2]) = (e[2] * R + e[1]) * w
                      /\ ElementBytes(o, e[1], e[2]) \subseteq 0 .. size - 1
                /\ \A e, f \in inb :
                      e # f => ElementBytes(o, e[1], e[2])
                                   \cap ElementBytes(o, f[1], f[2]) = {}

\* a Contiguous 3 x 2 Float64 matrix whose last element has been written
C20_Witness ==
    \E p \in Handles :
        /\ Attached(p) /\ h[p].cls = "shm" /\ ~h[p].sepCols
        /\ h[p].nrow = 3 /\ h[p].ncol = 2 /\ h[p].matType = 8
        /\ ReadElement(p, 2, 1) \in Vals
        /\ ReadElement(p, 0, 0) = 0

(***************************************************************************)
(* Claims about element writes and about detaching holders.                *)
(***************************************************************************)

\* the step in which holder p stores v in element (row, col)
WriteStep(p, row, col, v) ==
    LET key == <<h[p].sharedName, row, col>>
    IN  /\ Attached(p)
        /\ key \in DOMAIN lastW'
        /\ lastW'[key] = v
        /\ IF key \in DOMAIN lastW THEN lastW[key] # v ELSE TRUE

\* the in-bounds (row, column) pairs of the matrix of holder p
Elements(p) == (0 .. h[p].nrow - 1) \X (0 .. h[p].ncol - 1)

\* C21: writing element (r, c) changes exactly that element: a read of
\* (r, c) then returns the written value and every other element keeps its
\* value, in the Contiguous and in the Separated layout.
C21_WriteChangesOneElement ==
    [][\A p \in Handles, row \in 0 .. MaxRows - 1, col \in 0 .. MaxCols - 1,
          v \in Vals :
          WriteStep(p, row, col, v) =>
              \A e \in Elements(p) :
                  (ReadElement(p, e[1], e[2]))' =
                      IF e = <<row, col>> THEN v ELSE ReadElement(p, e[1], e[2])]_vars

\* a 3 x 2 matrix in which (1, 0) was written and its neighbours in the row
\* and in the column were not
C21_Witness ==
    \E p \in Handles :
        /\ Attached(p) /\ h[p].nrow = 3 /\ h[p].ncol = 2
        /\ ReadElement(p, 1, 0) \in Vals
        /\ ReadElement(p, 0, 0) = 0 /\ ReadElement(p, 2, 0) = 0
        /\ ReadElement(p, 1, 1) = 0

\* the named data segments of the shared-memory namespace
DataSegments(s) == {n \in DOMAIN s : s[n].kind = "data"}

\* C22: a destroy() by a holder while the reference count is greater than
\* 1 releases that holder's own mappings and changes the count only: every
\* named data segment and file, every column lock, the structural lock and
\* every other holder's mappings and the element contents stay as they are;
\* in the shared-memory store the count goes down by one.
C22_DetachLeavesSharedStateAlone ==
    [][\A p \in Handles :
          (DestroyStep(p) /\ RefCount(h[p].sharedName) > 1) =>
              /\ h'[p].regions = << >>
              /\ \A q \in Handles \ {p} : h'[q] = h[q]
              /\ DataSegments(shm') = DataSegments(shm)
              /\ \A n \in DOMAIN shm \ {h[p].counter} :
                    n \in DOMAIN shm' /\ shm'[n] = shm[n]
              /\ fs' = fs /\ mem' = mem /\ locks' = locks
              /\ h[p].cls = "shm" =>
                    RefCount(h[p].sharedName)' = RefCount(h[p].sharedName) - 1]_vars

\* a holder has detached from a shared-memory matrix that another holder
\* is still attached to
C22_Witness ==
    \E p, q \in Handles :
        /\ p # q /\ h[p].cls = "shm" /\ h[p].op = "destroy"
        /\ h[q].sharedName = h[p].sharedName /\ Attached(q)
        /\ RefCount(h[q].sharedName) >= 1
        /\ h[q].regions # << >>

(***************************************************************************)
(* Locking with callers that hold the locks of one batched call at a time: *)
(* a caller enters read_lock or read_write_lock only while it holds no     *)
(* column lock.  Every statement that can execute eventually does; a lock  *)
(* statement that can return again and again eventually returns.           *)
(***************************************************************************)
\* BigMatrixRelease on all the columns the caller holds a lock on
ReleaseAll(p) ==
    BigMatrixRelease(p) /\ Len(call'[p].lockCols) = Cardinality(call[p].granted)

NextLockFair ==
    \E p \in Handles :
        \/ /\ Unused(p)
           /\ known = << >>
           /\ SharedMemoryBigMatrix_create(p, 1, MaxCols, 4, FALSE, NoFail)
        \/ CAttachSharedBigMatrix(p)
        \/ call[p].granted = {} /\ BigMatrixRLock(p)
        \/ call[p].granted = {} /\ BigMatrixRWLock(p)
        \/ ReleaseAll(p)
        \/ read_lock(p)
        \/ read_write_lock(p)
        \/ unlock(p)
        \/ Return(p)

SpecLockFair ==
    /\ Init /\ [][NextLockFair]_vars
    /\ \A p \in Handles :
          /\ WF_vars(ReleaseAll(p) \/ unlock(p) \/ Return(p))
          /\ SF_vars(read_lock(p) \/ read_write_lock(p))

\* holder p is inside read_lock or read_write_lock
InLockCall(p) == call[p].op \in {"read_lock", "read_write_lock"}

\* the lock call of holder p is about to return true
LockCallReturns(p) ==
    call[p].op \in {"read_lock", "read_write_lock"} /\ call[p].pc = "return"

InSection(p) ==
    tm.proc[p].pc \in {"init", "attach", "data", "mutexes", "reset", "unlock"}

\* C24: at no time are two processes both between lock() and unlock() of
\* the transient mutex of the same name, although every operation removes
\* the name right after unlocking.
C24_TransientMutexExcludes ==
    \A p, q \in Handles :
        (InSection(p) /\ InSection(q) /\ tm.proc[p].id = tm.proc[q].id) => p = q

\* every holder that attached has detached and no operation is under way
AllDetached ==
    /\ known # << >>
    /\ \A p \in Handles : tm.proc[p].pc = "idle" /\ ~Attached(p)

\* C25: attach and detach running concurrently do not corrupt the count:
\* once every holder has detached, the data segments have been released,
\* and they have been released exactly once.
C25_ConcurrentDetachReleasesOnce ==
    AllDetached => DataSegments(shm) = {} /\ tm.releases = 1

(***************************************************************************)
(* Claims about the file-backed store and about failed operations.         *)
(***************************************************************************)

\* C26: the file-backed store follows the reference-count lifecycle of the
\* shared-memory store: every destroy() of a file-backed holder lowers the
\* count of its matrix by exactly 1.
C26_FileBackedDestroyLowersCount ==
    [][\A p \in Handles :
          (DestroyStep(p) /\ h[p].cls = "file") =>
              RefCount(h[p].sharedName)' = RefCount(h[p].sharedName) - 1]_vars

\* holder p's connect() fails in the step
FailedConnectStep(p) ==
    h[p].op = "none" /\ h'[p].op = "connect" /\ h'[p].res # "true"

\* C27: a connect() that fails leaves the reference count unchanged,
\* creates no counter, lock or mutex under the target identity, and leaves
\* the transient mutex unlocked.
C27_FailedConnectChangesNothing ==
    [][\A p \in Handles :
          FailedConnectStep(p) => shm' = shm /\ locks' = locks /\ nmx' = nmx]_vars

\* C28: on every return path of create(), successful or failed, of both
\* stores, the transient creation mutex has been unlocked and its name
\* removed: a later operation that opens the mutex of that name can lock it.
C28_CreateReleasesCreationMutex ==
    [][\A p \in Handles :
          CreateStep(p) =>
              CounterMutexName(h'[p].sharedName) \notin DOMAIN nmx']_vars

\* holder p's create() of a Separated file-backed matrix fails in the step
FailedSepFileCreate(p) ==
    /\ CreateStep(p)
    /\ h'[p].cls = "file"
    /\ h'[p].sepCols
    /\ h'[p].res = "false"

\* C29: when a Separated file-backed create() fails at the file of column k,
\* the files of columns 0..k-1 that the call created are removed before it
\* returns, and the reference counter the call initialized is released.
C29_FailedFileCreateRollsBack ==
    [][\A p \in Handles :
          FailedSepFileCreate(p) =>
              /\ DOMAIN fs' \subseteq DOMAIN fs
              /\ h'[p].counter \notin DOMAIN shm']_vars

\* the backing files of the file-backed matrix id
FilesOf(id) ==
    LET k == known[id]
    IN  IF k.sepCols
        THEN {FileColumnName(k.filePath, k.fileName, i) : i \in 0 .. k.ncol - 1}
        ELSE {k.filePath \o k.fileName}

\* holder p's destroy() is the last one of its file-backed matrix
LastFileDestroy(p) ==
    /\ DestroyStep(p)
    /\ h[p].cls = "file"
    /\ \A q \in Handles \ {p} :
          h[q].sharedName = h[p].sharedName => ~Attached(q)

\* the matrix of holder p was created with the persistence flag unset
CreatedUnpreserved(p) ==
    \E q \in Handles : /\ h[q].sharedName = h[p].sharedName
                       /\ h[q].how = "create"
                       /\ ~h[q].preserve

\* C30: the persistence flag given at create() decides whether the backing
\* files survive the last destroy(): when the flag was unset and the last
\* holder to destroy attached through connect(), the files are deleted.
C30_CreateFlagDecidesFileSurvival ==
    [][\A p \in Handles :
          (LastFileDestroy(p) /\ h[p].how = "connect" /\ CreatedUnpreserved(p))
              => FilesOf(h[p].sharedName) \cap DOMAIN fs' = {}]_vars

(***************************************************************************)
(* Claims about the length of the structural lock's hold.                  *)
(***************************************************************************)

\* the statement of the loop of p's call for the column at position i
ColumnStatement(p, i) ==
    IF call[p].op = "read_lock"
    THEN read_lock_column(lk, h[p], call[p].cols, i, p)
    ELSE read_write_lock_column(lk, h[p], call[p].cols, i, p)

\* p's call is inside its loop, waiting for a column that is held
BlockedOnColumn(p) ==
    InColumnLoop(p) /\ ~ColumnStatement(p, call[p].i).can

\* p's call is about to take the structural lock and none of its columns has
\* a conflicting holder
AllColumnsFree(p) ==
    /\ call[p].op \in {"read_lock", "read_write_lock"}
    /\ call[p].pc = "mutexLock"
    /\ \A i \in 0 .. Len(call[p].cols) - 1 : ColumnStatement(p, i).can

\* C31: a caller blocked on one column does not delay batch callers for
\* disjoint columns: while a call waits for a held column, a call whose
\* columns are all free and do not include that column can take the
\* structural lock.
C31_BlockedCallerDelaysNoOne ==
    \A p, q \in Handles :
        (/\ p # q
         /\ h[p].sharedName = h[q].sharedName
         /\ BlockedOnColumn(q)
         /\ AllColumnsFree(p)
         /\ \A i \in DOMAIN call[p].cols :
               call[p].cols[i] # ColumnAt(call[q].cols, call[q].i))
            => mutexLock_read_write_lock(lk, h[p], p).can

(***************************************************************************)
(* Identities that repeat.  uuid::create() of create_uuid draws the        *)
(* identity from a random number generator, and a process whose generator  *)
(* starts from the seed of an earlier process draws the identities the     *)
(* earlier process drew: the next create() chooses a name that is in use.  *)
(***************************************************************************)
uuid_create_repeats ==
    /\ nextUuid > 0
    /\ nextUuid' = nextUuid - 1
    /\ UNCHANGED <<shm, fs, mem, nmx, locks, h, known, lastW, lk, call, heap,
                   cell, tm, out>>

NextRepeat ==
    \/ uuid_create_repeats
    \/ \E p \in Handles :
          \/ CreateShared(p, {4}, FALSE)
          \/ CAttachSharedBigMatrix(p)
          \/ SharedMemoryBigMatrix_destroy(p)

SpecRepeat == Init /\ [][NextRepeat]_vars

\* holder p's create() fails in the step
FailedCreateStep(p) == CreateStep(p) /\ h'[p].res = "false"

\* C32: a failed create() removes only resources that the same call
\* created: every data segment that existed before the call, among them the
\* segment of another matrix under the chosen name, exists after it.
C32_FailedCreateKeepsForeignSegments ==
    [][\A p \in Handles :
          FailedCreateStep(p) =>
              \A n \in DataSegments(shm) : n \in DOMAIN shm' /\ shm'[n] = shm[n]]_vars

(***************************************************************************)
(* destroy() called again on a holder that has been destroyed.  The first  *)
(* call leaves _matrix as it was: in the Separated layout the second call  *)
(* executes delete [] on the column-pointer index a second time, which is  *)
(* undefined: the call may return or the process may be aborted.           *)
(***************************************************************************)
DoubleDeleteOutcomes == {"true", "abort"}

\* the fields of object o after the delete [] of a destroy() called again
DeletedAgain(o, outcome) ==
    IF o.sepCols /\ o.matrix # "NULL"
    THEN [o EXCEPT !.matrix = "freed_twice", !.res = outcome]
    ELSE o

\* SharedMemoryBigMatrix::destroy on a destroyed holder: its counter has
\* been reset, so no branch on _sharedCounter.get() == 1 is taken
SharedMemoryBigMatrix_destroy_again(p) ==
    LET o == h[p]
    IN  /\ o.cls = "shm"
        /\ o.op = "destroy"
        /\ CanLock(CounterMutexName(o.sharedName))
        /\ \E outcome \in DoubleDeleteOutcomes :
              h' = [h EXCEPT ![p] = DeletedAgain(o, outcome)]
        /\ shm' = SharedCounter_reset(shm, o.counter)
        /\ UNCHANGED <<fs, mem, nmx, locks, nextUuid, known, lastW, lk, call,
                       heap, cell, tm, out>>

\* FileBackedBigMatrix::destroy on a destroyed holder: the counter is still
\* attached and is read again
FileBackedBigMatrix_destroy_again(p) ==
    LET o == h[p]
        last == SharedCounter_get(shm, o.counter) = 1
        r == IF ~last THEN [shm |-> shm, fs |-> fs]
             ELSE IF o.sepCols
             THEN DestroyFileBackedSepMatrix(shm, fs, o.sharedName, o.ncol,
                                             o.fileName, o.preserve)
             ELSE [shm |-> shm_remove(shm, o.sharedName),
                   fs |-> IF o.preserve THEN fs ELSE unlink(fs, o.fileName)]
    IN  /\ o.cls = "file"
        /\ o.op = "destroy"
        /\ CanLock(CounterMutexName(o.sharedName))
        /\ shm' = r.shm
        /\ fs' = r.fs
        /\ locks' = IF last
                    THEN BigMemoryMutex_destroy(
                             DestroyMutexes(locks, o.mutexPtrs, 1), o.mutexLock)
                    ELSE locks
        /\ \E outcome \in DoubleDeleteOutcomes :
              h' = [h EXCEPT ![p] = DeletedAgain(o, outcome)]
        /\ UNCHANGED <<mem, nmx, nextUuid, known, lastW, lk, call, heap, cell, tm, out>>

NextAgain ==
    \E p \in Handles :
        \/ CreateShared(p, {4}, FALSE)
        \/ CAttachSharedBigMatrix(p)
        \/ CreateFileBacked(p, {4}, FALSE)
        \/ CAttachFileBackedBigMatrix(p)
        \/ CDestroySharedMatrix(p)
        \/ SharedMemoryBigMatrix_destroy_again(p)
        \/ FileBackedBigMatrix_destroy_again(p)

SpecAgain == Init /\ [][NextAgain]_vars

\* holder p calls destroy() again in the step
SecondDestroyStep(p) ==
    SharedMemoryBigMatrix_destroy_again(p) \/ FileBackedBigMatrix_destroy_again(p)

\* the files and locks of the attached holders other than p
UsedByOthers(p) ==
    [files |-> UNION {FilesOf(h[q].sharedName) :
                         q \in {x \in Handles \ {p} :
                                   Attached(x) /\ h[x].cls = "file"}},
     locks |-> UNION {{h[q].mutexPtrs[i] : i \in DOMAIN h[q].mutexPtrs}
                         \cup {h[q].mutexLock} :
                         q \in {x \in Handles \ {p} : Attached(x)}}]

\* C33: destroy() takes effect at most once per holder: a second call does
\* not lower the reference count again, does not free the column-pointer
\* index again, and removes no file or lock that other holders still use.
C33_SecondDestroyHasNoEffect ==
    [][\A p \in Handles :
          SecondDestroyStep(p) =>
              /\ RefCount(h[p].sharedName)' = RefCount(h[p].sharedName)
              /\ h'[p].matrix # "freed_twice"
              /\ UsedByOthers(p).files \cap DOMAIN fs \subseteq DOMAIN fs'
              /\ UsedByOthers(p).locks \cap locks \subseteq locks']_vars

(***************************************************************************)
(* Local matrices of every shape, the empty ones included: CCreateMatrix   *)
(* passes the row and column counts it is given to create().               *)
(***************************************************************************)
CCreateMatrix_shapes(p) ==
    /\ NoObjectYet /\ Unused(p)
    /\ \E numRow \in 0 .. MaxRows, numCol \in 0 .. MaxCols :
         \E t \in Types, sep \in BOOLEAN :
            LocalBigMatrix_create(p, numRow, numCol, t, sep, NoFail)

NextShapes ==
    \E p \in Handles :
        \/ CCreateMatrix_shapes(p)
        \/ LocalBigMatrix_destroy(p)

SpecShapes == Init /\ [][NextShapes]_vars

\* C34: every block a successful local create() allocates is freed by the
\* following destroy(), for all row and column counts, 0 included, and for
\* both layouts: after create() and destroy() no block remains allocated.
C34_DestroyFreesEveryBlock ==
    \A p \in Handles :
        (h[p].cls = "local" /\ h[p].res = "true" /\ h[p].destroys >= 1)
            => \A b \in DOMAIN heap : ~heap[b].live

(***************************************************************************)
(* Claims about the values that reach the elements.                        *)
(***************************************************************************)

\* the bindings that store an initial value at creation
CreatePaths == {"CCreateMatrix", "CCreateSharedMatrix", "CCreateFileBackedBigMatrix"}

\* C35: an initial value given at creation that lies inside the valid range
\* of the element type is stored unchanged, for each element type and for
\* local, shared-memory and file-backed creation.
C35_InitialValueInRangeIsKept ==
    (cell.path \in CreatePaths /\ ~isna(cell.val)
        /\ ~OutOfRange(cell.type, cell.val))
        => cell.stored = cell.val

(***************************************************************************)
(* Reading an element back.  GetMatrixElements compares the element with   *)
(* static_cast<CType>(NA_C) and returns static_cast<RType>(NA_R) when they *)
(* are equal, else the element converted to RType: int for the integer     *)
(* element types, double for Float64.                                      *)
(***************************************************************************)
\* the C comparison a == b: false when either side is a NaN
Equal(a, b) == a.lev # LevNaN /\ b.lev # LevNaN /\ a = b

\* sizeof(RType) of the vector the bindings return for element type t
RTypeWidth(t) == IF t = 8 THEN 8 ELSE 4

\* <<NA_C, NA_R>> as the binding GetMatrixElements passes them
GetArgs(t) ==
    CASE t = 1 -> <<NA_CHAR, NA_INTEGER>>
      [] t = 2 -> <<NA_SHORT, NA_INTEGER>>
      [] t = 4 -> <<NA_INTEGER, NA_INTEGER>>
      [] t = 8 -> <<NA_REAL, NA_REAL>>

\* the load of GetMatrixElements without the comparison with NA_C
GetMatrixElements_load_Raw(t, x, NA_C, NA_R) == StaticCast(RTypeWidth(t), x)

\* the right-hand side of "pRet[k] =" in GetMatrixElements for the element x
GetMatrixElements_load(t, x, NA_C, NA_R) ==
    UNION {IF Equal(x, c) THEN StaticCast(RTypeWidth(t), NA_R)
           ELSE StaticCast(RTypeWidth(t), x) : c \in StaticCast(t, NA_C)}

\* GetMatrixElements of the binding on the element that was assigned
GetElements ==
    /\ cell.path = "SetMatrixElements"
    /\ \E g \in GetMatrixElements_load(cell.type, cell.stored,
                                       GetArgs(cell.type)[1],
                                       GetArgs(cell.type)[2]) :
          cell' = [cell EXCEPT !.path = "GetMatrixElements", !.got = g]
    /\ UNCHANGED <<shm, fs, mem, nmx, locks, h, nextUuid, known, lastW, lk,
                   call, heap, tm, out>>

NextRoundTrip ==
    \/ AssignElements("SetMatrixElements")
    \/ GetElements

SpecRoundTrip == Init /\ [][NextRoundTrip]_vars

\* the missing-value marker of the caller's vector for element type t
CallerNA(t) == IF t = 8 THEN NA_REAL ELSE NA_INTEGER

\* C36: assignment followed by read is a round trip: an in-range value is
\* read back unchanged, an out-of-range value or the caller's missing-value
\* marker is read back as the caller's missing-value marker.
C36_SetThenGetRoundTrip ==
    cell.path = "GetMatrixElements" =>
        cell.got = IF OutOfRange(cell.type, cell.val) \/ isna(cell.val)
                   THEN CallerNA(cell.type)
                   ELSE cell.val

\* an Int8 element assigned a value above the Int8 range holds the Int8
\* sentinel and reads back as the missing integer
C36_Witness ==
    /\ cell.path = "GetMatrixElements"
    /\ cell.type = 1
    /\ Less(R_CHAR_MAX, cell.val)
    /\ cell.stored = NA_CHAR
    /\ cell.got = NA_INTEGER

(***************************************************************************)
(* Extraction.  GetMatrixElements and GetMatrixCols fill the vector pRet   *)
(* of the matrix Rf_allocMatrix returns, whose entries are not             *)
(* initialized, walking the column indexes (i) and the row indexes (j)     *)
(* with the write position k.  The matrix read is an Int32 matrix of       *)
(* GetRows rows and GetCols columns with a different value in each         *)
(* element.                                                                *)
(***************************************************************************)
GetRows == 2
GetCols == 2
MaxIndexes == 2

\* the element at the 1-based (row, col) of the matrix that is read
SampleElement(row, col) == Num(10 * col + row)

\* an index of the R vectors row and col: a position or the missing value
IndexValues(n) == {Num(x) : x \in 1 .. n} \cup {NA_REAL}
IndexVectors(n) == UNION {[1 .. len -> IndexValues(n)] : len \in 1 .. MaxIndexes}

\* what an entry of pRet can hold before it is written
Uninitialized == {Num(0), NA_INTEGER}

\* the value read for the element x of the Int32 matrix
LoadInt32(x) == GetMatrixElements_load(4, x, GetArgs(4)[1], GetArgs(4)[2])

RECURSIVE GetMatrixElements_fill(_, _, _, _, _, _)
\* the two nested loops of GetMatrixElements from (i, j) on; the branch of
\* a missing column index writes pRet[k] and does not advance k
GetMatrixElements_fill(pRet, rows, cols, i, j, k) ==
    IF i = Len(cols) THEN pRet
    ELSE IF j = Len(rows)
    THEN GetMatrixElements_fill(pRet, rows, cols, i + 1, 0, k)
    ELSE IF isna(cols[i + 1])
    THEN GetMatrixElements_fill([pRet EXCEPT ![k + 1] = GetArgs(4)[2]],
                                rows, cols, i, j + 1, k)
    ELSE LET v == IF isna(rows[j + 1]) THEN GetArgs(4)[2]
                  ELSE CHOOSE g \in LoadInt32(SampleElement(rows[j + 1].n,
                                                            cols[i + 1].n)) : TRUE
         IN  GetMatrixElements_fill([pRet EXCEPT ![k + 1] = v],
                                    rows, cols, i, j + 1, k + 1)

\* the binding GetMatrixElements(bigMatAddr, col, row)
GetMatrixElements_call ==
    /\ \E rows \in IndexVectors(GetRows), cols \in IndexVectors(GetCols) :
         \E pRet \in [1 .. Len(rows) * Len(cols) -> Uninitialized] :
            out' = [fn |-> "GetMatrixElements", args |-> <<cols, rows>>,
                    ret |-> GetMatrixElements_fill(pRet, rows, cols, 0, 0, 0)]
    /\ UNCHANGED <<shm, fs, mem, nmx, locks, h, nextUuid, known, lastW, lk,
                   call, heap, cell, tm>>

\* the binding GetMatrixCols(bigMatAddr, col): the same loops over every
\* row of the matrix
GetMatrixCols_call ==
    LET rows == [r \in 1 .. GetRows |-> Num(r)]
    IN  /\ \E cols \in IndexVectors(GetCols) :
             \E pRet \in [1 .. GetRows * Len(cols) -> Uninitialized] :
                out' = [fn |-> "GetMatrixCols", args |-> <<cols, rows>>,
                        ret |-> GetMatrixElements_fill(pRet, rows, cols, 0, 0, 0)]
        /\ UNCHANGED <<shm, fs, mem, nmx, locks, h, nextUuid, known, lastW, lk,
                       call, heap, cell, tm>>

NextGet ==
    \/ GetMatrixElements_call
    \/ GetMatrixCols_call

SpecGet == Init /\ [][NextGet]_vars

\* the entry the result must hold for column position i and row position j
ExpectedEntry(rows, cols, i, j) ==
    IF isna(cols[i + 1]) \/ isna(rows[j + 1]) THEN NA_INTEGER
    ELSE SampleElement(rows[j + 1].n, cols[i + 1].n)

\* C37: the result is filled in column-major order: entry i*numRows + j is
\* the element at (rows[j], cols[i]), or the missing-value marker when
\* rows[j] or cols[i] is missing; a missing column index fills its own
\* numRows entries and does not shift the later columns.
C37_ResultIsColumnMajor ==
    out.fn \in {"GetMatrixElements", "GetMatrixCols"} =>
        LET cols == out.args[1]
            rows == out.args[2]
        IN  \A i \in 0 .. Len(cols) - 1, j \in 0 .. Len(rows) - 1 :
                out.ret[i * Len(rows) + j + 1] = ExpectedEntry(rows, cols, i, j)

(***************************************************************************)
(* CCleanIndices(indices, rc): the result is the pair (flag, new indices), *)
(* or the pair (null, null) on an error.                                   *)
(***************************************************************************)
MaxRc == 3
MaxCleaned == 2

\* the pair (null, null)
NullPair == [flag |-> "NULL", null |-> TRUE, list |-> << >>]
\* the pair (flag, list)
Pair(flag, list) == [flag |-> flag, null |-> FALSE, list |-> list]
\* the pair (FALSE, null): the indices can be used as they are
AsGiven == [flag |-> "FALSE", null |-> TRUE, list |-> << >>]
\* the process ends inside the call
Aborted == [flag |-> "abort", null |-> TRUE, list |-> << >>]

labs(x) == IF x < 0 THEN -x ELSE x

RECURSIVE EraseNegated(_, _, _)
\* the loop over the indices from entry i on, each erasing the entry of ind
\* that equals its negation
EraseNegated(ind, indices, i) ==
    IF i > Len(indices) THEN ind
    ELSE EraseNegated(SelectSeq(ind, LAMBDA y : y # -1 * indices[i]),
                      indices, i + 1)

(***************************************************************************)
(* The possible results of CCleanIndices.  The branch "zeroIndexCount > 0" *)
(* comes before the branch for negative indices; it allocates              *)
(* posIndexCount entries and copies every non-zero entry, so with negative *)
(* entries it writes past the end of a vector of length 0, which is        *)
(* undefined: the call returns that vector or the process is aborted.      *)
(***************************************************************************)
CCleanIndices(indices, maxrc) ==
    LET numIndices == Len(indices)
        zeroIndexCount == Len(SelectSeq(indices, LAMBDA x : x = 0))
        negIndexCount == Len(SelectSeq(indices, LAMBDA x : x < 0))
        posIndexCount == Len(SelectSeq(indices, LAMBDA x : x > 0))
        nonZero == SelectSeq(indices, LAMBDA x : x # 0)
    IN  IF \E i \in DOMAIN indices : labs(indices[i]) > maxrc THEN {NullPair}
        ELSE IF zeroIndexCount = numIndices /\ numIndices > 0
        THEN {Pair("TRUE", << >>)}
        ELSE IF posIndexCount > 0 /\ negIndexCount > 0 THEN {NullPair}
        ELSE IF zeroIndexCount > 0
        THEN IF Len(nonZero) > posIndexCount
             THEN {Pair("TRUE", SubSeq(nonZero, 1, posIndexCount)), Aborted}
             ELSE {Pair("TRUE", nonZero)}
        ELSE IF negIndexCount > 0
        THEN {Pair("TRUE", EraseNegated([k \in 1 .. maxrc |-> k], indices, 1))}
        ELSE {AsGiven}

\* the index vectors a caller passes
CleanInputs ==
    UNION {[1 .. len -> -(MaxRc + 1) .. MaxRc + 1] : len \in 1 .. MaxCleaned}

CCleanIndices_call ==
    /\ \E indices \in CleanInputs, maxrc \in 1 .. MaxRc :
         \E r \in CCleanIndices(indices, maxrc) :
            out' = [fn |-> "CCleanIndices", args |-> <<indices, maxrc>>, ret |-> r]
    /\ UNCHANGED <<shm, fs, mem, nmx, locks, h, nextUuid, known, lastW, lk,
                   call, heap, cell, tm>>

NextClean == CCleanIndices_call

SpecClean == Init /\ [][NextClean]_vars

\* the elements of the set S in ascending order
Ascending(S) ==
    CHOOSE q \in [1 .. Cardinality(S) -> S] :
        \A a, b \in 1 .. Cardinality(S) : a < b => q[a] < q[b]

\* C38: for indices with no positive entry, at least one negative entry and
\* every magnitude at most maxrc (zeros allowed) the result is TRUE with the
\* ascending list of the indices of 1..maxrc whose negation does not occur;
\* for indices that mix positive and negative entries or hold a magnitude
\* above maxrc it is the pair (null, null).
C38_NegativeIndicesGiveComplement ==
    out.fn = "CCleanIndices" =>
        LET indices == out.args[1]
            maxrc == out.args[2]
            entries == {indices[i] : i \in DOMAIN indices}
            tooBig == \E x \in entries : labs(x) > maxrc
            positive == \E x \in entries : x > 0
            negative == \E x \in entries : x < 0
        IN  /\ (~positive /\ negative /\ ~tooBig) =>
                  out.ret = Pair("TRUE",
                                 Ascending({k \in 1 .. maxrc : -k \notin entries}))
            /\ ((positive /\ negative) \/ tooBig) => out.ret = NullPair

(***************************************************************************)
(* MatrixHashRanges<T>(pMat, selectColumn): the (first, last) pairs of the *)
(* runs of the selected column, as one integer vector.                     *)
(***************************************************************************)
MaxHashRows == 3

\* the C comparison val != lastVal of element type t: for double it is true
\* whenever a side is a NaN
NotEqual(t, val, lastVal) ==
    IF t = 8 THEN ~Equal(val, lastVal) ELSE val # lastVal

RECURSIVE MatrixHashRanges_count(_, _, _, _)
\* the first loop from the 0-based row i on: the increments of uniqueValCount
MatrixHashRanges_count(t, column, i, lastVal) ==
    IF i >= Len(column) THEN 0
    ELSE LET val == column[i + 1]
         IN  IF NotEqual(t, val, lastVal)
             THEN 1 + MatrixHashRanges_count(t, column, i + 1, val)
             ELSE MatrixHashRanges_count(t, column, i + 1, lastVal)

RECURSIVE MatrixHashRanges_fill(_, _, _, _, _)
\* the second loop from the 0-based row i on: pRet[j++] = i; pRet[j++] = i+1
\* at every row whose value is not the last one
MatrixHashRanges_fill(t, column, i, lastVal, pRet) ==
    IF i >= Len(column) THEN pRet
    ELSE LET val == column[i + 1]
         IN  IF NotEqual(t, val, lastVal)
             THEN MatrixHashRanges_fill(t, column, i + 1, val,
                                        pRet \o <<i, i + 1>>)
             ELSE MatrixHashRanges_fill(t, column, i + 1, lastVal, pRet)

\* the result: R_NilValue for a matrix without rows, else the vector
MatrixHashRanges(t, column) ==
    IF Len(column) = 0 THEN [null |-> TRUE, list |-> << >>]
    ELSE LET uniqueValCount ==
                 1 + MatrixHashRanges_count(t, column, 1, column[1])
             written == MatrixHashRanges_fill(t, column, 1, column[1], <<1>>)
         IN  [null |-> FALSE,
              list |-> [k \in 1 .. uniqueValCount * 2 |->
                           IF k = uniqueValCount * 2 THEN Len(column)
                           ELSE written[k]]]

\* the values a column of element type t holds: two numbers and the missing
\* value of the type
HashVals(t) ==
    {Num(0), Num(1),
     IF t = 1 THEN NA_CHAR ELSE IF t = 2 THEN NA_SHORT
     ELSE IF t = 4 THEN NA_INTEGER ELSE NA_REAL}

MatrixHashRanges_call ==
    /\ \E t \in Types, nrow \in 0 .. MaxHashRows :
         \E column \in [1 .. nrow -> HashVals(t)] :
            out' = [fn |-> "MatrixHashRanges", args |-> <<t, column>>,
                    ret |-> MatrixHashRanges(t, column)]
    /\ UNCHANGED <<shm, fs, mem, nmx, locks, h, nextUuid, known, lastW, lk,
                   call, heap, cell, tm>>

NextHash == MatrixHashRanges_call

SpecHash == Init /\ [][NextHash]_vars

\* C39: for a column of nrow >= 1 rows the result is a list of 1-based
\* (first, last) pairs that partition 1..nrow into consecutive ranges: the
\* first starts at 1, the last ends at nrow, each starts one past the end of
\* the previous one, the values inside a range are equal and the values of
\* two adjacent ranges differ.
C39_RangesPartitionColumn ==
    (out.fn = "MatrixHashRanges" /\ Len(out.args[2]) >= 1) =>
        LET column == out.args[2]
            r == out.ret.list
            m == Len(r) \div 2
            first(k) == r[2 * k - 1]
            last(k) == r[2 * k]
        IN  /\ ~out.ret.null
            /\ Len(r) = 2 * m
            /\ m >= 1
            /\ first(1) = 1
            /\ last(m) = Len(column)
            /\ \A k \in 1 .. m : first(k) <= last(k)
            /\ \A k \in 1 .. m - 1 : first(k + 1) = last(k) + 1
            /\ \A k \in 1 .. m :
                  \A a, b \in first(k) .. last(k) : column[a] = column[b]
            /\ \A k \in 1 .. m - 1 : column[last(k)] # column[first(k + 1)]
====
